---- MODULE Spec2Model ----
(***************************************************************************)
(* Model of the behaviour engine of form-js-playground: the matrix <->     *)
(* bundle codec (core/behaviors.ts), the schema enricher (core/enrich.ts), *)
(* the derived values of the application component (App.tsx), the          *)
(* BehaviorMatrix and ViewerPane components, and the data sources          *)
(* (FormsDataSource, CompositeDataSource).                                 *)
(*                                                                         *)
(* JavaScript values are represented as follows.                           *)
(*   - an object used as a dictionary (the matrix, a matrix row) is a      *)
(*     function whose DOMAIN is the set of its own keys;                   *)
(*   - an array is a sequence;                                             *)
(*   - an optional property is a set: {} when the property is undefined,   *)
(*     {v} when it holds v.                                                *)
(* Object.entries enumerates the keys of a matrix in insertion order; the  *)
(* model enumerates them in the fixed order FieldOrder.                    *)
(***************************************************************************)
EXTENDS Integers, Sequences, FiniteSets, TLC

(* ------------------------------ bounds --------------------------------- *)
MaxStateList == 2   \* length of the state list handed to bundlesFromMatrix
MaxRows == 2        \* rows in a bundle list read from a file
MaxBundles == 2     \* bundles in a list the application loads or resolves
MaxDepth == 4       \* nodes on the longest containment chain of a schema
MaxCells == 1       \* cells in a matrix file loaded by the application
MaxLoadRows == 1    \* rows in a bundle file loaded by the application
MaxFieldList == 2   \* length of the field key list handed to ensureAllCells
MaxSiblings == 3    \* nodes in the longest components list of a schema
MaxEdits == 2       \* setCell calls on a BehaviorMatrix without loader
MaxLoaderEdits == 1 \* setCell calls on a BehaviorMatrix with loadFromAPI
MaxFormChanges == 1 \* changes of loadFromAPI.formId on a BehaviorMatrix
MaxPending == 3     \* updates of the form of a ViewerPane in progress at once

(* ------------------------------ types ---------------------------------- *)
\* the field keys of the model, in the order Object.entries lists them
FieldOrder == <<"x", "y">>
FieldKeys == {FieldOrder[i] : i \in DOMAIN FieldOrder}

\* App.tsx:37-42, the ids of STATES in order
STATES == <<"entry", "review.section1", "review.section2", "approve">>

\* the states that the cells of a matrix and the bundles of a file name
StateIds == {"entry", "approve"}

CellMode == {"hidden", "readonly", "editable"}
ActionContext == {"view", "create", "update"}
FieldCell == [mode : CellMode, required : BOOLEAN]

None == {}
Some(v) == {v}
OptBool == {None, Some(TRUE), Some(FALSE)}

TaskFieldBehavior ==
  [field_name : FieldKeys, action_context : ActionContext,
   visible : OptBool, required : BOOLEAN]

EmptyMatrix == [k \in {} |-> 0]

MatrixRows == UNION {[D -> FieldCell] : D \in SUBSET StateIds}
BehaviorMatrixValue == UNION {[D -> MatrixRows] : D \in SUBSET FieldKeys}

SeqUpTo(S, n) == UNION {[1..k -> S] : k \in 0..n}

\* A schema node.  key is "" when the node has no key (the code tests the
\* key for truthiness only); components is <<>> for a node without children
\* (transform maps a missing and an empty components list alike); label
\* names the node and is never read or written by the enricher.
NoKey == ""
Validate == {None} \cup {Some([required |-> r]) : r \in OptBool}
MkNode(key, type, label, disabled, validate, components) ==
  [key |-> key, type |-> type, label |-> label, disabled |-> disabled,
   validate |-> validate, components |-> components]
MkSchema(components) == [type |-> "default", components |-> components]

(* --------------------------- core/behaviors.ts ------------------------- *)

\* the cell matrix[fieldKey][state], as a set: empty when the lookup is falsy
CellAt(matrix, fieldKey, state) ==
  IF fieldKey \in DOMAIN matrix /\ state \in DOMAIN matrix[fieldKey]
  THEN {matrix[fieldKey][state]}
  ELSE {}

\* mutant: every row is visible
RowOfCell_AlwaysVisible(fieldKey, cell) ==
  [field_name |-> fieldKey,
   action_context |-> IF cell.mode = "editable" THEN "update" ELSE "view",
   visible |-> Some(TRUE),
   required |-> cell.required /\ cell.mode = "editable"]

\* mutant: every visible cell is written as an update row
RowOfCell_VisibleIsUpdate(fieldKey, cell) ==
  [field_name |-> fieldKey,
   action_context |-> IF cell.mode # "hidden" THEN "update" ELSE "view",
   visible |-> Some(cell.mode # "hidden"),
   required |-> cell.required /\ cell.mode = "editable"]

\* behaviors.ts:28-41, the row pushed for one cell
RowOfCell(fieldKey, cell) ==
  LET visible == cell.mode # "hidden"
      isEditable == cell.mode = "editable"
      required == cell.required /\ isEditable
  IN [field_name |-> fieldKey,
      action_context |-> IF isEditable THEN "update" ELSE "view",
      visible |-> Some(visible),
      required |-> required]

\* mutant: a field of the matrix without a cell for the state gets a hidden row
RECURSIVE RowsForState_Dense(_, _, _)
RowsForState_Dense(matrix, state, i) ==
  IF i > Len(FieldOrder) THEN <<>>
  ELSE LET fk == FieldOrder[i]
           c == CellAt(matrix, fk, state)
       IN IF fk \notin DOMAIN matrix
          THEN RowsForState_Dense(matrix, state, i + 1)
          ELSE <<RowOfCell(fk, IF c = {}
                               THEN [mode |-> "hidden", required |-> FALSE]
                               ELSE CHOOSE x \in c : TRUE)>>
               \o RowsForState_Dense(matrix, state, i + 1)

\* behaviors.ts:23-42, the inner loop over Object.entries(matrix)
RECURSIVE RowsForState(_, _, _)
RowsForState(matrix, state, i) ==
  IF i > Len(FieldOrder) THEN <<>>
  ELSE LET fk == FieldOrder[i]
           c == CellAt(matrix, fk, state)
       IN IF c = {} THEN RowsForState(matrix, state, i + 1)
          ELSE <<RowOfCell(fk, CHOOSE x \in c : TRUE)>>
               \o RowsForState(matrix, state, i + 1)

\* mutant: a visible cell makes the bundle an update bundle
AnyEditable_AnyVisible(matrix, state) ==
  \E fk \in DOMAIN matrix :
    \E c \in CellAt(matrix, fk, state) : c.mode # "hidden"

\* behaviors.ts:21,34,44
AnyEditable(matrix, state) ==
  \E fk \in DOMAIN matrix :
    \E c \in CellAt(matrix, fk, state) : c.mode = "editable"

\* mutant: a state without any row gets no bundle
bundlesFromMatrix_SkipEmpty(matrix, allStates) ==
  LET kept == SelectSeq(allStates,
                        LAMBDA st : RowsForState(matrix, st, 1) # <<>>)
  IN [i \in 1..Len(kept) |->
        [state |-> kept[i],
         action |-> IF AnyEditable(matrix, kept[i]) THEN "update" ELSE "view",
         rows |-> RowsForState(matrix, kept[i], 1)]]

\* behaviors.ts:16-54
bundlesFromMatrix(matrix, allStates) ==
  [i \in 1..Len(allStates) |->
     [state |-> allStates[i],
      action |-> IF AnyEditable(matrix, allStates[i]) THEN "update" ELSE "view",
      rows |-> RowsForState(matrix, allStates[i], 1)]]

\* mutant: only update rows are editable, create rows are readonly
CellOfRow_UpdateOnly(row) ==
  LET mode == IF row.visible = Some(FALSE) THEN "hidden"
              ELSE IF row.action_context = "update" THEN "editable"
              ELSE "readonly"
  IN [mode |-> mode,
      required |-> IF mode = "editable" THEN row.required ELSE FALSE]

\* behaviors.ts:69-79, the cell derived from one row
CellOfRow(row) ==
  LET mode == IF row.visible = Some(FALSE) THEN "hidden"
              ELSE IF row.action_context \in {"update", "create"} THEN "editable"
              ELSE "readonly"
  IN [mode |-> mode,
      required |-> IF mode = "editable" THEN row.required ELSE FALSE]

\* behaviors.ts:81-82, m[key] = m[key] || {}; m[key][state] = cell
PutCell(m, key, state, cell) ==
  LET old == IF key \in DOMAIN m THEN m[key] ELSE EmptyMatrix
      new == [s \in DOMAIN old \cup {state} |->
                IF s = state THEN cell ELSE old[s]]
  IN [k \in DOMAIN m \cup {key} |-> IF k = key THEN new ELSE m[k]]

\* behaviors.ts:64-83, the loop over the rows of one bundle
RECURSIVE ApplyRows(_, _, _, _)
ApplyRows(m, state, rows, j) ==
  IF j > Len(rows) THEN m
  ELSE ApplyRows(PutCell(m, rows[j].field_name, state, CellOfRow(rows[j])),
                 state, rows, j + 1)

\* behaviors.ts:63-84, the loop over the bundles
RECURSIVE ApplyBundles(_, _, _)
ApplyBundles(m, bundles, i) ==
  IF i > Len(bundles) THEN m
  ELSE ApplyBundles(ApplyRows(m, bundles[i].state, bundles[i].rows, 1),
                    bundles, i + 1)

\* behaviors.ts:60-87
matrixFromBundles(bundles) == ApplyBundles(EmptyMatrix, bundles, 1)


(* ----------------------------- core/enrich.ts -------------------------- *)

\* enrich.ts:8-10, JSON.parse(JSON.stringify(obj)): the same JSON value
deepClone(obj) == obj

\* mutant: only update rows are editable, create rows are readonly
toRule_UpdateOnly(row) ==
  LET mode == IF row.visible = Some(FALSE) THEN "hidden"
              ELSE IF row.action_context = "update" THEN "editable"
              ELSE "readonly"
  IN [mode |-> mode,
      required |-> IF mode = "editable" THEN row.required ELSE FALSE]

\* enrich.ts:12-26
toRule(row) ==
  LET hidden == row.visible = Some(FALSE)
      mode == IF hidden THEN "hidden"
              ELSE IF row.action_context \in {"update", "create"} THEN "editable"
              ELSE "readonly"
  IN [mode |-> mode,
      required |-> IF mode = "editable" THEN row.required ELSE FALSE]

\* enrich.ts:33-37, rules.set(r.field_name, toRule(r)) for each row in order
RECURSIVE SetRules(_, _, _)
SetRules(rules, rows, j) ==
  IF j > Len(rows) THEN rules
  ELSE SetRules([k \in DOMAIN rules \cup {rows[j].field_name} |->
                   IF k = rows[j].field_name THEN toRule(rows[j]) ELSE rules[k]],
                rows, j + 1)

\* enrich.ts:44-45, key ? rules.get(key) : undefined
RuleFor(rules, key) ==
  IF key # NoKey /\ key \in DOMAIN rules THEN Some(rules[key]) ELSE None

\* mutant: a readonly node is disabled and its validate object left alone
ApplyFlags_KeepRequired(nn, rule) ==
  IF rule = None THEN nn
  ELSE LET r == CHOOSE x \in rule : TRUE IN
    IF r.mode = "readonly" THEN [nn EXCEPT !.disabled = Some(TRUE)]
    ELSE IF r.mode = "editable" THEN
      [nn EXCEPT !.disabled = Some(FALSE),
                 !.validate = Some([required |-> Some(r.required)])]
    ELSE nn

\* mutant: a node without a rule is disabled like a readonly one
ApplyFlags_DefaultReadonly(nn, rule) ==
  IF rule = None THEN [nn EXCEPT !.disabled = Some(TRUE)]
  ELSE LET r == CHOOSE x \in rule : TRUE IN
    IF r.mode = "readonly" THEN
      [nn EXCEPT !.disabled = Some(TRUE),
                 !.validate = IF nn.validate # None
                              THEN Some([required |-> Some(FALSE)])
                              ELSE None]
    ELSE IF r.mode = "editable" THEN
      [nn EXCEPT !.disabled = Some(FALSE),
                 !.validate = Some([required |-> Some(r.required)])]
    ELSE nn

\* enrich.ts:58-67, the flags of a kept node
ApplyFlags(nn, rule) ==
  IF rule = None THEN nn
  ELSE LET r == CHOOSE x \in rule : TRUE IN
    IF r.mode = "readonly" THEN
      [nn EXCEPT !.disabled = Some(TRUE),
                 !.validate = IF nn.validate # None
                              THEN Some([required |-> Some(FALSE)])
                              ELSE None]
    ELSE IF r.mode = "editable" THEN
      [nn EXCEPT !.disabled = Some(FALSE),
                 !.validate = Some([required |-> Some(r.required)])]
    ELSE nn

\* mutant: a hidden node is dropped at the top level only
RECURSIVE transform_TopLevelOnly(_, _)
transform_TopLevelOnly(nodes, rules) ==
  IF nodes = <<>> THEN <<>>
  ELSE LET n == Head(nodes)
           rule == RuleFor(rules, n.key)
       IN IF \E r \in rule : r.mode = "hidden"
          THEN transform_TopLevelOnly(Tail(nodes), rules)
          ELSE <<ApplyFlags(deepClone(n), rule)>>
               \o transform_TopLevelOnly(Tail(nodes), rules)

\* enrich.ts:41-72
RECURSIVE transform(_, _)
transform(nodes, rules) ==
  IF nodes = <<>> THEN <<>>
  ELSE LET n == Head(nodes)
           rule == RuleFor(rules, n.key)
       IN IF \E r \in rule : r.mode = "hidden"
          THEN transform(Tail(nodes), rules)
          ELSE LET nn == [deepClone(n) EXCEPT
                            !.components = transform(n.components, rules)]
               IN <<ApplyFlags(nn, rule)>> \o transform(Tail(nodes), rules)

\* enrich.ts:32-76
enrichFormSchemaForState(schema, bundle) ==
  LET rules == SetRules(EmptyMatrix, bundle.rows, 1)
      next == deepClone(schema)
  IN [next EXCEPT !.components = transform(next.components, rules)]

(* ------------------- core/datasource.ts, BehaviorMatrix ---------------- *)

\* mutant: the children of a text or button node are not visited
RECURSIVE extractFields_SkipDisplaySubtree(_)
extractFields_SkipDisplaySubtree(components) ==
  IF components = <<>> THEN <<>>
  ELSE LET c == Head(components)
       IN IF c.type \in {"text", "button"}
          THEN extractFields_SkipDisplaySubtree(Tail(components))
          ELSE (IF c.key # NoKey
                THEN <<[key |-> c.key, label |-> c.label, type |-> c.type]>>
                ELSE <<>>)
               \o extractFields_SkipDisplaySubtree(c.components)
               \o extractFields_SkipDisplaySubtree(Tail(components))

\* datasource.ts:64-86, pre-order walk; text and button nodes give no field
RECURSIVE extractFields(_)
extractFields(components) ==
  IF components = <<>> THEN <<>>
  ELSE LET c == Head(components)
           own == IF c.type \notin {"text", "button"} /\ c.key # NoKey
                  THEN <<[key |-> c.key, label |-> c.label, type |-> c.type]>>
                  ELSE <<>>
       IN own \o extractFields(c.components) \o extractFields(Tail(components))

Range(seq) == {seq[i] : i \in DOMAIN seq}

\* BehaviorMatrix (part_001:26)
DEFAULT_CELL == [mode |-> "hidden", required |-> FALSE]

\* mutant: only the fields the matrix already has are completed
ensureAllCells_KnownFieldsOnly(matrix, fieldKeys, states) ==
  [fk \in DOMAIN matrix |->
     IF fk \in Range(fieldKeys)
     THEN [st \in DOMAIN matrix[fk] \cup Range(states) |->
             IF st \in DOMAIN matrix[fk] THEN matrix[fk][st] ELSE DEFAULT_CELL]
     ELSE matrix[fk]]

\* mutant: the result holds the listed fields and states only
ensureAllCells_DropOrphans(matrix, fieldKeys, states) ==
  [fk \in Range(fieldKeys) |->
     [st \in Range(states) |->
        IF CellAt(matrix, fk, st) # {} THEN matrix[fk][st] ELSE DEFAULT_CELL]]

\* mutant: one call inserts at most one cell per field, the first missing one
ensureAllCells_OnePerField(matrix, fieldKeys, states) ==
  [fk \in DOMAIN matrix \cup Range(fieldKeys) |->
     LET old == IF fk \in DOMAIN matrix THEN matrix[fk] ELSE EmptyMatrix
         missing == SelectSeq(states, LAMBDA st : st \notin DOMAIN old)
         added == IF missing = <<>> THEN {} ELSE {Head(missing)}
     IN IF fk \in Range(fieldKeys)
        THEN [st \in DOMAIN old \cup added |->
                IF st \in DOMAIN old THEN old[st] ELSE DEFAULT_CELL]
        ELSE old]

\* BehaviorMatrix (part_001:33-46)
ensureAllCells(matrix, fieldKeys, states) ==
  [fk \in DOMAIN matrix \cup Range(fieldKeys) |->
     LET old == IF fk \in DOMAIN matrix THEN matrix[fk] ELSE EmptyMatrix
     IN IF fk \in Range(fieldKeys)
        THEN [st \in DOMAIN old \cup Range(states) |->
                IF st \in DOMAIN old THEN old[st] ELSE DEFAULT_CELL]
        ELSE old]

\* mutant: a cell of the target is kept where the source has one too
overlayMatrixSourceWins_TargetWins(target, source) ==
  [fk \in DOMAIN target \cup DOMAIN source |->
     LET t == IF fk \in DOMAIN target THEN target[fk] ELSE EmptyMatrix
         s == IF fk \in DOMAIN source THEN source[fk] ELSE EmptyMatrix
     IN [st \in DOMAIN t \cup DOMAIN s |->
           IF st \in DOMAIN t THEN t[st] ELSE s[st]]]

\* BehaviorMatrix (part_001:53-65)
overlayMatrixSourceWins(target, source) ==
  [fk \in DOMAIN target \cup DOMAIN source |->
     LET t == IF fk \in DOMAIN target THEN target[fk] ELSE EmptyMatrix
         s == IF fk \in DOMAIN source THEN source[fk] ELSE EmptyMatrix
     IN [st \in DOMAIN t \cup DOMAIN s |->
           IF st \in DOMAIN s THEN s[st] ELSE t[st]]]

(* -------------------------------- App.tsx ------------------------------ *)

\* Array.prototype.find: the first bundle of the state, as an optional value
RECURSIVE FindBundle(_, _, _)
FindBundle(bundles, state, i) ==
  IF i > Len(bundles) THEN None
  ELSE IF bundles[i].state = state THEN Some(bundles[i])
  ELSE FindBundle(bundles, state, i + 1)

\* App.tsx:64-67, the bundle handed to the enricher
ResolveBundle(bundles, state) ==
  LET b == FindBundle(bundles, state, 1)
  IN IF b # None THEN CHOOSE x \in b : TRUE
     ELSE [state |-> state, action |-> "view", rows |-> <<>>]

\* mutant: the entry state gets no exemption
ResolveReadOnly_NoEntry(bundles, m, state) ==
  LET b == FindBundle(bundles, state, 1)
      anyEditable == \E fk \in DOMAIN m :
                       /\ state \in DOMAIN m[fk]
                       /\ m[fk][state].mode = "editable"
  IN (\E x \in b : x.action = "view") \/ ~anyEditable

\* App.tsx:69-73
ResolveReadOnly(bundles, m, state) ==
  LET b == FindBundle(bundles, state, 1)
      anyEditable == \E fk \in DOMAIN m :
                       /\ state \in DOMAIN m[fk]
                       /\ m[fk][state].mode = "editable"
  IN (\E x \in b : x.action = "view") \/ (~anyEditable /\ state # "entry")

\* the text of a behaviors file, by the value JSON.parse gives: an array
\* (a bundle list), an object (a matrix), or no value (a SyntaxError)
ArrayFile(bl) == [kind |-> "array", array |-> bl, object |-> EmptyMatrix]
ObjectFile(m) == [kind |-> "object", array |-> <<>>, object |-> m]
InvalidFile == [kind |-> "invalid", array |-> <<>>, object |-> EmptyMatrix]

\* mutant: a bundle file is completed for every field and state
loadBehaviors_Completed(file, current) ==
  IF file.kind = "invalid" THEN current
  ELSE IF file.kind = "array"
       THEN ensureAllCells(matrixFromBundles(file.array), FieldOrder, STATES)
       ELSE file.object

\* part_000:117-135 (and setupProxy.js:505-520): the matrix that the
\* reader.onload handler leaves in the state; a text that does not parse
\* is caught and leaves the matrix as it is
loadBehaviors(file, current) ==
  IF file.kind = "invalid" THEN current
  ELSE IF file.kind = "array"
       THEN matrixFromBundles(file.array)
       ELSE file.object

\* mutant: a patch of the mode resets required
PatchCell_ModeResetsRequired(cur, patch) ==
  [mode |-> IF patch.mode # None THEN CHOOSE m \in patch.mode : TRUE
            ELSE cur.mode,
   required |-> IF patch.required # None
                THEN CHOOSE r \in patch.required : TRUE
                ELSE IF patch.mode # None THEN FALSE ELSE cur.required]

\* part_001:89-92, the new cell: patch.mode ?? cur.mode and
\* patch.required ?? cur.required
PatchCell(cur, patch) ==
  [mode |-> IF patch.mode # None THEN CHOOSE m \in patch.mode : TRUE
            ELSE cur.mode,
   required |-> IF patch.required # None
                THEN CHOOSE r \in patch.required : TRUE
                ELSE cur.required]

\* part_001:86-94 setCell: the matrix handed to onChange; safeValue is the
\* value completed for the fields of the schema and the states
SetCellIn(safeValue, fieldKey, state, patch) ==
  [safeValue EXCEPT ![fieldKey][state] =
     PatchCell(safeValue[fieldKey][state], patch)]

setCell(value, fieldKeys, states, fieldKey, state, patch) ==
  SetCellIn(ensureAllCells(value, fieldKeys, states), fieldKey, state, patch)

\* mutant: the matrix of the server replaces the current one
CompletedMatrix_ServerOnly(latest, server, fieldKeys, states) ==
  ensureAllCells(server, fieldKeys, states)

\* part_001:158-165: the matrix the loader builds when the GET completes,
\* from latestValueRef.current and the matrix of the server
CompletedMatrix(latest, server, fieldKeys, states) ==
  ensureAllCells(overlayMatrixSourceWins(latest, server), fieldKeys, states)

\* what a call gives: a value, null, or an error thrown; from names the
\* request that decided it and status is the HTTP status of its answer
Value(from) == [kind |-> "value", from |-> from, status |-> 200]
Null(from, status) == [kind |-> "null", from |-> from, status |-> status]
Thrown(from, status) == [kind |-> "error", from |-> from, status |-> status]

\* mutant: every failure of the first route is a miss
isMiss_AnyFailure(e) == e.kind = "error"

\* formsDataSource.ts:41-44
isMiss(e) == e.status \in {404, 405}

\* formsDataSource.ts:115-121, 198-203 and 165-168, 184-187, 226: what the
\* operation gives when its second route has failed
SecondRouteFailed(op, status) ==
  IF op \in {"getFormDefinition", "getEntry"}
  THEN Null("route2", status)
  ELSE Thrown("route2", status)

\* formsDataSource.ts:228-235 listStates has one route and gives [] when
\* it fails; the other operations give the error unless it is a miss
FirstRouteFailed(op, status) ==
  IF op = "listStates" THEN Value("route1") ELSE Thrown("route1", status)

\* mutant: the error of the fallback is the one surfaced
preferError_Last(firstError, secondError) == secondError

\* part_006:29-33, the error prefer throws when both calls have failed
preferError(firstError, secondError) == firstError

(* ------------------------ objects and references ----------------------- *)
\* The objects the functions are handed and the objects they allocate, by
\* kind: matrices (field key -> row reference), rows (state -> cell
\* reference), cells, schema nodes, components arrays (lists of node
\* references) and validate objects.  A reference is the index of an
\* object in the list of its kind; 0 stands for undefined.
EmptyHeap ==
  [mat |-> <<>>, row |-> <<>>, cell |-> <<>>,
   node |-> <<>>, arr |-> <<>>, val |-> <<>>]

\* the elements of a set in some fixed order (Object.keys)
RECURSIVE SeqOf(_)
SeqOf(S) ==
  IF S = {} THEN <<>>
  ELSE LET x == CHOOSE y \in S : TRUE IN <<x>> \o SeqOf(S \ {x})

IndexOf(seq, x) == CHOOSE i \in DOMAIN seq : seq[i] = x

\* obj[k] = v on an object held as a function
SetKey(f, k, v) == [x \in DOMAIN f \cup {k} |-> IF x = k THEN v ELSE f[x]]

\* the <<field, state>> pairs of the cells of a matrix value, field by field
RECURSIVE PairsOf(_, _)
PairsOf(m, fields) ==
  IF fields = <<>> THEN <<>>
  ELSE LET sts == SeqOf(DOMAIN m[Head(fields)])
       IN [i \in 1..Len(sts) |-> <<Head(fields), sts[i]>>]
          \o PairsOf(m, Tail(fields))

\* JSON.parse of the text of a matrix: a new matrix object with a new row
\* object per field and a new cell object per cell
ParseMatrix(h, m) ==
  LET fields == SeqOf(DOMAIN m)
      pairs == PairsOf(m, fields)
      cells == [i \in 1..Len(pairs) |-> m[pairs[i][1]][pairs[i][2]]]
      rows == [j \in 1..Len(fields) |->
                 [st \in DOMAIN m[fields[j]] |->
                    Len(h.cell) + IndexOf(pairs, <<fields[j], st>>)]]
      mat == [fk \in DOMAIN m |-> Len(h.row) + IndexOf(fields, fk)]
  IN [h |-> [h EXCEPT !.cell = @ \o cells, !.row = @ \o rows,
                      !.mat = Append(@, mat)],
      ref |-> Len(h.mat) + 1]

\* JSON.stringify of a matrix object: the value read through the references
MatrixAt(h, r) ==
  [fk \in DOMAIN h.mat[r] |->
     [st \in DOMAIN h.row[h.mat[r][fk]] |-> h.cell[h.row[h.mat[r][fk]][st]]]]

\* mutant: no copy is made, the function works on the object it is handed
cloneMatrix_Alias(h, r) == [h |-> h, ref |-> r]

\* part_001:38 and part_001:57, JSON.parse(JSON.stringify(matrix || {}))
cloneMatrix(h, r) == ParseMatrix(h, MatrixAt(h, r))

\* part_001:41-43, out[fk][st] = out[fk][st] || { ...DEFAULT_CELL }
RECURSIVE EnsureStates(_, _, _, _)
EnsureStates(h, row, states, j) ==
  IF j > Len(states) THEN h
  ELSE IF states[j] \in DOMAIN h.row[row]
  THEN EnsureStates(h, row, states, j + 1)
  ELSE EnsureStates([h EXCEPT !.cell = Append(@, DEFAULT_CELL),
                              !.row[row] = SetKey(@, states[j], Len(h.cell) + 1)],
                    row, states, j + 1)

\* part_001:39-44, out[fk] = out[fk] || {} and the loop over the states
RECURSIVE EnsureFields(_, _, _, _, _)
EnsureFields(h, out, fieldKeys, states, i) ==
  IF i > Len(fieldKeys) THEN h
  ELSE LET fk == fieldKeys[i]
           h1 == IF fk \in DOMAIN h.mat[out] THEN h
                 ELSE [h EXCEPT !.row = Append(@, EmptyMatrix),
                                !.mat[out] = SetKey(@, fk, Len(h.row) + 1)]
       IN EnsureFields(EnsureStates(h1, h1.mat[out][fk], states, 1),
                       out, fieldKeys, states, i + 1)

\* part_001:33-46 on objects: the heap after the call and the object returned
EnsureOut(out, fieldKeys, states) ==
  [h |-> EnsureFields(out.h, out.ref, fieldKeys, states, 1), ref |-> out.ref]
ensureAllCellsAt(h, matrix, fieldKeys, states) ==
  EnsureOut(cloneMatrix(h, matrix), fieldKeys, states)

\* part_001:60-62, out[fk][st] = source[fk][st]: the row of out is given
\* the reference to the cell of source
RECURSIVE OverlayStates(_, _, _, _, _)
OverlayStates(h, row, sourceRow, states, j) ==
  IF j > Len(states) THEN h
  ELSE OverlayStates([h EXCEPT !.row[row] =
                         SetKey(@, states[j], h.row[sourceRow][states[j]])],
                     row, sourceRow, states, j + 1)

\* part_001:58-63, the loop over Object.keys(source)
RECURSIVE OverlayFields(_, _, _, _, _)
OverlayFields(h, out, source, fields, i) ==
  IF i > Len(fields) THEN h
  ELSE LET fk == fields[i]
           h1 == IF fk \in DOMAIN h.mat[out] THEN h
                 ELSE [h EXCEPT !.row = Append(@, EmptyMatrix),
                                !.mat[out] = SetKey(@, fk, Len(h.row) + 1)]
           sourceRow == h1.mat[source][fk]
       IN OverlayFields(OverlayStates(h1, h1.mat[out][fk], sourceRow,
                                      SeqOf(DOMAIN h1.row[sourceRow]), 1),
                        out, source, fields, i + 1)

\* part_001:53-65 on objects
OverlayOut(out, source) ==
  [h |-> OverlayFields(out.h, out.ref, source,
                       SeqOf(DOMAIN out.h.mat[source]), 1),
   ref |-> out.ref]
overlayMatrixSourceWinsAt(h, target, source) ==
  OverlayOut(cloneMatrix(h, target), source)

\* behaviors.ts:61-86 on objects: m, its rows and its cells are new objects
matrixFromBundlesAt(h, bundles) == ParseMatrix(h, matrixFromBundles(bundles))

\* a reference put in front of the references a loop returns
Prepend(ref, rest) == [h |-> rest.h, refs |-> <<ref>> \o rest.refs]

\* JSON.parse of the text of a node: after the nodes of its components, a
\* new array for a non-empty components list, a new validate object and
\* the new node object
AllocNode(kids, n) ==
  [h |-> [kids.h EXCEPT
            !.arr = IF n.components = <<>> THEN @ ELSE Append(@, kids.refs),
            !.val = IF n.validate = None THEN @
                    ELSE Append(@, CHOOSE v \in n.validate : TRUE),
            !.node = Append(@,
              [key |-> n.key, type |-> n.type, label |-> n.label,
               disabled |-> n.disabled,
               validate |-> IF n.validate = None THEN 0
                            ELSE Len(kids.h.val) + 1,
               components |-> IF n.components = <<>> THEN 0
                              ELSE Len(kids.h.arr) + 1])],
   ref |-> Len(kids.h.node) + 1]

\* JSON.parse of the text of a node list and of a node
RECURSIVE ParseNodes(_, _), ParseNode(_, _), ParseRest(_, _)
ParseNodes(h, nodes) ==
  IF nodes = <<>> THEN [h |-> h, refs |-> <<>>]
  ELSE ParseRest(ParseNode(h, Head(nodes)), Tail(nodes))
ParseRest(first, nodes) == Prepend(first.ref, ParseNodes(first.h, nodes))
ParseNode(h, n) == AllocNode(ParseNodes(h, n.components), n)

\* JSON.stringify of a node object: the value read through the references
RECURSIVE NodeAt(_, _)
NodeAt(h, r) ==
  MkNode(h.node[r].key, h.node[r].type, h.node[r].label, h.node[r].disabled,
         IF h.node[r].validate = 0 THEN None
         ELSE Some(h.val[h.node[r].validate]),
         IF h.node[r].components = 0 THEN <<>>
         ELSE [i \in DOMAIN h.arr[h.node[r].components] |->
                 NodeAt(h, h.arr[h.node[r].components][i])])

\* the schema object is held as a node without key, label and flags
ParseSchema(h, s) ==
  ParseNode(h, MkNode(NoKey, s.type, "", None, None, s.components))
SchemaAt(h, r) == MkSchema(NodeAt(h, r).components)

\* mutant: no copy is made, the caller's object is returned
deepCloneAt_Alias(h, r) == [h |-> h, ref |-> r]

\* enrich.ts:8-10 on objects, JSON.parse(JSON.stringify(obj))
deepCloneAt(h, r) == ParseNode(h, NodeAt(h, r))

\* enrich.ts:64, nn.validate = nn.validate || {}
EnsureValidate(h, nn) ==
  IF h.node[nn].validate # 0 THEN h
  ELSE [h EXCEPT !.val = Append(@, [required |-> None]),
                 !.node[nn].validate = Len(h.val) + 1]

\* nn.disabled = d, and nn.validate.required = r when nn has a validate
\* object
WriteFlags(h, nn, d, r) ==
  [h EXCEPT !.node[nn].disabled = Some(d),
            !.val = IF h.node[nn].validate = 0 THEN @
                    ELSE [@ EXCEPT ![h.node[nn].validate].required = Some(r)]]

\* enrich.ts:58-67 on objects: the writes to nn and to nn.validate
ApplyFlagsAt(h, nn, rule) ==
  IF \E r \in rule : r.mode = "readonly" THEN WriteFlags(h, nn, TRUE, FALSE)
  ELSE IF \E r \in rule : r.mode = "editable"
  THEN WriteFlags(EnsureValidate(h, nn), nn, FALSE,
                  \E r \in rule : r.required)
  ELSE h

\* enrich.ts:54 and 74, nn.components = out: the new array and the write
SetComponents(nn, hadArray, out) ==
  IF ~hadArray THEN out.h
  ELSE [out.h EXCEPT !.arr = Append(@, out.refs),
                     !.node[nn].components = Len(out.h.arr) + 1]

\* enrich.ts:41-72 on objects: nodes is a list of node references, the
\* result the heap after the loop and the references pushed to out; c is
\* the clone nn of a kept node
RECURSIVE transformAt(_, _, _), TransformKept(_, _, _, _), KidsOf(_, _)
transformAt(h, nodes, rules) ==
  IF nodes = <<>> THEN [h |-> h, refs |-> <<>>]
  ELSE IF \E r \in RuleFor(rules, h.node[Head(nodes)].key) : r.mode = "hidden"
  THEN transformAt(h, Tail(nodes), rules)
  ELSE TransformKept(deepCloneAt(h, Head(nodes)),
                     RuleFor(rules, h.node[Head(nodes)].key),
                     Tail(nodes), rules)

KidsOf(c, rules) ==
  IF c.h.node[c.ref].components = 0 THEN [h |-> c.h, refs |-> <<>>]
  ELSE transformAt(c.h, c.h.arr[c.h.node[c.ref].components], rules)

TransformKept(c, rule, rest, rules) ==
  Prepend(c.ref,
          transformAt(ApplyFlagsAt(SetComponents(c.ref,
                                                 c.h.node[c.ref].components # 0,
                                                 KidsOf(c, rules)),
                                   c.ref, rule),
                      rest, rules))

\* enrich.ts:39 and 74-75: next.components = transform(next.components || [])
EnrichClone(next, rules) ==
  [h |-> SetComponents(next.ref, TRUE, KidsOf(next, rules)), ref |-> next.ref]

\* enrich.ts:32-76 on objects
enrichFormSchemaForStateAt(h, schema, bundle) ==
  EnrichClone(deepCloneAt(h, schema), SetRules(EmptyMatrix, bundle.rows, 1))

\* the node, array and validate objects a node object leads to
RECURSIVE NodesFrom(_, _)
NodesFrom(h, r) ==
  {r} \cup
  (IF h.node[r].components = 0 THEN {}
   ELSE UNION {NodesFrom(h, h.arr[h.node[r].components][i]) :
                 i \in DOMAIN h.arr[h.node[r].components]})
ArraysFrom(h, r) == {h.node[x].components : x \in NodesFrom(h, r)} \ {0}
ValidatesFrom(h, r) == {h.node[x].validate : x \in NodesFrom(h, r)} \ {0}

\* the row and cell objects a matrix object leads to
RowsFrom(h, r) == {h.mat[r][fk] : fk \in DOMAIN h.mat[r]}
CellsFrom(h, r) ==
  UNION {{h.row[x][st] : st \in DOMAIN h.row[x]} : x \in RowsFrom(h, r)}

(* ------------------------------ state ---------------------------------- *)
VARIABLES
  cpc,        \* codec run: "matrix", "bundles", "file", "done", or "off"
  cMatrix,    \* codec run: the matrix given to bundlesFromMatrix
  cStates,    \* codec run: the state list given to bundlesFromMatrix
  cBundles,   \* codec run: the bundle list (derived, or read from a file)
  cOut,       \* codec run: the matrix returned by matrixFromBundles
  epc,        \* enricher run: "input", "enriched", or "off"
  eSchema,    \* enricher run: the schema given to enrichFormSchemaForState
  eBundle,    \* enricher run: the bundle given to enrichFormSchemaForState
  eOut,       \* enricher run: the schema returned
  apc,        \* application: "on" while the component is mounted, or "off"
  matrix,     \* application: useState matrix
  formState,  \* application: useState formState
  schema,     \* application: useState schema
  rpc,        \* read-only run: "input", "resolved", or "off"
  rBundles,   \* read-only run: the bundle list
  rMatrix,    \* read-only run: the matrix
  rState,     \* read-only run: the active state
  rOut,       \* read-only run: the flag computed
  opc,        \* matrix helper run: the step reached, or "off"
  oMatrix,    \* matrix helper run: the matrix (the target of an overlay)
  oSource,    \* matrix helper run: the source of an overlay
  oFields,    \* matrix helper run: the field keys given to ensureAllCells
  oStates,    \* matrix helper run: the states given to ensureAllCells
  oOut,       \* matrix helper run: the matrix returned by the last call
  oPrev,      \* matrix helper run: the matrix returned by the call before
  hpc,        \* call on objects: "args", "returned", "result changed",
              \* "source changed", or "off"
  hFn,        \* call on objects: the function called
  heap,       \* call on objects: the objects, by kind
  hArg,       \* call on objects: the arguments, references and plain values
  hWas,       \* call on objects: the values of the arguments before the call
  hOut,       \* call on objects: the result, a reference or a plain value
  hRet,       \* call on objects: the value of the result when returned
  fpc,        \* field extraction run: "input", "done", or "off"
  fComponents, \* field extraction run: the components given to extractFields
  fOut,       \* field extraction run: the list of fields returned
  lpc,        \* behaviors file load: "file", "loaded", or "off"
  lFile,      \* behaviors file load: the text of the file, by what it parses to
  lMatrix,    \* behaviors file load: useState matrix
  bValue,     \* BehaviorMatrix: the value prop (the matrix of the parent)
  bFields,    \* BehaviorMatrix: the keys of fields, from the schema prop
  bFormId,    \* BehaviorMatrix: loadFromAPI.formId, "" when not given
  latestValueRef, \* BehaviorMatrix: latestValueRef.current
  lastEmittedRef, \* BehaviorMatrix: lastEmittedRef.current, None for null
  fetchedRef, \* BehaviorMatrix: fetchedRef.current, "" for null
  gState,     \* BehaviorMatrix: the GET of the loader effect: "none",
              \* "flight", "aborted", "emitted", "skipped", "failed"
  gUsable,    \* BehaviorMatrix: whether the server's answer to the GET in
              \* flight holds a usable field_state_setting
  bOp,        \* BehaviorMatrix: the last step taken and its inputs
  bEdits,     \* BehaviorMatrix: the number of setCell calls so far
  gEdited,    \* BehaviorMatrix: whether setCell was called while the GET
              \* was in flight
  bFormChanges, \* BehaviorMatrix: the number of formId changes so far
  vSchema,    \* ViewerPane: the schema prop
  vData,      \* ViewerPane: the data prop
  lastSchemaRef, \* ViewerPane: lastSchemaRef.current, "" for null
  lastDataRef, \* ViewerPane: lastDataRef.current, "" for null
  suppressChangeRef, \* ViewerPane: suppressChangeRef.current
  vPending,   \* ViewerPane: the updates of the form that are in progress
  vCall,      \* ViewerPane: the last call of onDataChange, if any
  dOp,        \* data source call: the operation called on the composite
  dpc,        \* data source call: "route1", "route2", "fallback", "done",
              \* or "off"
  dLog,       \* data source call: the requests made so far, with the
              \* status each was answered with (0: no answer)
  dPrimary,   \* data source call: what the call on the primary gave
  dFallback,  \* data source call: what the call on the fallback gave
  dResult     \* data source call: what the composite gave to its caller

codecVars == <<cpc, cMatrix, cStates, cBundles, cOut>>
enrichVars == <<epc, eSchema, eBundle, eOut>>
appVars == <<apc, matrix, formState, schema>>
resolveVars == <<rpc, rBundles, rMatrix, rState, rOut>>
opsVars == <<opc, oMatrix, oSource, oFields, oStates, oOut, oPrev>>
heapVars == <<hpc, hFn, heap, hArg, hWas, hOut, hRet>>
fieldsVars == <<fpc, fComponents, fOut>>
loadVars == <<lpc, lFile, lMatrix>>
bmVars == <<bValue, bFields, bFormId, latestValueRef, lastEmittedRef,
            fetchedRef, gState, gUsable, bOp, bEdits, gEdited,
            bFormChanges>>
viewerVars == <<vSchema, vData, lastSchemaRef, lastDataRef,
                suppressChangeRef, vPending, vCall>>
dsVars == <<dOp, dpc, dLog, dPrimary, dFallback, dResult>>
vars == <<codecVars, enrichVars, appVars, resolveVars, opsVars, heapVars, fieldsVars, loadVars, bmVars, viewerVars, dsVars>>

EmptySchema == MkSchema(<<>>)
EmptyBundle == [state |-> "entry", action |-> "view", rows |-> <<>>]
CodecOff ==
  /\ cpc = "off" /\ cMatrix = EmptyMatrix /\ cStates = <<>>
  /\ cBundles = <<>> /\ cOut = EmptyMatrix
EnrichOff ==
  /\ epc = "off" /\ eSchema = EmptySchema /\ eBundle = EmptyBundle
  /\ eOut = EmptySchema
AppOff ==
  /\ apc = "off" /\ matrix = EmptyMatrix /\ formState = "entry"
  /\ schema = EmptySchema
ResolveOff ==
  /\ rpc = "off" /\ rBundles = <<>> /\ rMatrix = EmptyMatrix
  /\ rState = "entry" /\ rOut = FALSE

OpsOff ==
  /\ opc = "off" /\ oMatrix = EmptyMatrix /\ oSource = EmptyMatrix
  /\ oFields = <<>> /\ oStates = <<>> /\ oOut = EmptyMatrix
  /\ oPrev = EmptyMatrix

NoArg ==
  [matrix |-> 0, source |-> 0, schema |-> 0, fieldKeys |-> <<>>,
   states |-> <<>>, bundles |-> <<>>, bundle |-> EmptyBundle]
NoWas ==
  [matrix |-> EmptyMatrix, source |-> EmptyMatrix, schema |-> EmptySchema,
   bundles |-> <<>>, bundle |-> EmptyBundle]
NoOut == [matrix |-> 0, schema |-> 0, bundles |-> <<>>]
FieldsOff == fpc = "off" /\ fComponents = <<>> /\ fOut = <<>>

NoFile == [kind |-> "invalid", array |-> <<>>, object |-> EmptyMatrix]
LoadOff == lpc = "off" /\ lFile = NoFile /\ lMatrix = EmptyMatrix

NoPatch == [mode |-> None, required |-> None]
NoOp == [op |-> "none", fk |-> "", st |-> "", patch |-> NoPatch,
         server |-> EmptyMatrix]
BmOff ==
  /\ bValue = EmptyMatrix /\ bFields = <<>> /\ bFormId = ""
  /\ latestValueRef = EmptyMatrix /\ lastEmittedRef = None
  /\ fetchedRef = "" /\ gState = "off" /\ gUsable = FALSE
  /\ bOp = NoOp /\ bEdits = 0 /\ gEdited = FALSE /\ bFormChanges = 0

NoCall == [called |-> FALSE, data |-> "", during |-> {}]
ViewerOff ==
  /\ vSchema = "" /\ vData = "" /\ lastSchemaRef = "" /\ lastDataRef = ""
  /\ suppressChangeRef = FALSE /\ vPending = {} /\ vCall = NoCall

Pending == [kind |-> "pending", from |-> "", status |-> 0]
DsOff ==
  /\ dOp = "" /\ dpc = "off" /\ dLog = <<>> /\ dPrimary = Pending
  /\ dFallback = Pending /\ dResult = Pending

NoRet == [matrix |-> EmptyMatrix, schema |-> EmptySchema]
HeapOff ==
  /\ hpc = "off" /\ hFn = "none" /\ heap = EmptyHeap /\ hArg = NoArg
  /\ hWas = NoWas /\ hOut = NoOut /\ hRet = NoRet

(* ----------------------- codec specification --------------------------- *)
\* bundle lists as a behaviors file may hold them: k bundles that share the
\* rows of rl, row j going to bundle own[j]; matrixFromBundles never reads
\* the action of a bundle, which is "view" throughout
RowLists == SeqUpTo(TaskFieldBehavior, MaxRows)

Monotone(own) ==
  \A a, b \in DOMAIN own : a <= b => own[a] <= own[b]

RECURSIVE RowsOwned(_, _, _, _)
RowsOwned(rl, own, i, j) ==
  IF j > Len(rl) THEN <<>>
  ELSE (IF own[j] = i THEN <<rl[j]>> ELSE <<>>) \o RowsOwned(rl, own, i, j + 1)

FileBundles(k, st, rl, own) ==
  [i \in 1..k |->
     [state |-> st[i], action |-> "view", rows |-> RowsOwned(rl, own, i, 1)]]

StateLists == SeqUpTo(StateIds, MaxStateList)

CodecInit ==
  /\ EnrichOff /\ AppOff /\ ResolveOff /\ OpsOff /\ HeapOff /\ FieldsOff /\ LoadOff /\ BmOff /\ ViewerOff /\ DsOff
  /\ cOut = EmptyMatrix
  /\ \/ /\ cpc = "matrix"
        /\ cMatrix \in BehaviorMatrixValue
        /\ cStates \in StateLists
        /\ cBundles = <<>>
     \/ /\ cpc = "file"
        /\ cMatrix = EmptyMatrix
        /\ cStates = <<>>
        /\ \E k \in 0..Cardinality(StateIds), rl \in RowLists :
             \E st \in [1..k -> StateIds], own \in [1..Len(rl) -> 1..k] :
               /\ Monotone(own)
               /\ cBundles = FileBundles(k, st, rl, own)

ToBundles ==
  /\ cpc = "matrix"
  /\ cBundles' = bundlesFromMatrix(cMatrix, cStates)
  /\ cpc' = "bundles"
  /\ UNCHANGED <<cMatrix, cStates, cOut, enrichVars, appVars, resolveVars, opsVars, heapVars, fieldsVars, loadVars, bmVars, viewerVars, dsVars>>

ToMatrix ==
  /\ cpc \in {"bundles", "file"}
  /\ cOut' = matrixFromBundles(cBundles)
  /\ cpc' = IF cpc = "bundles" THEN "restored" ELSE "loaded"
  /\ UNCHANGED <<cMatrix, cStates, cBundles, enrichVars, appVars, resolveVars, opsVars, heapVars, fieldsVars, loadVars, bmVars, viewerVars, dsVars>>

CodecNext == ToBundles \/ ToMatrix

SpecCodec == CodecInit /\ [][CodecNext]_vars

(* ---------------------- enricher specification ------------------------- *)
Keys == {NoKey} \cup FieldKeys
NodeLabels == <<"n1", "n2", "n3", "n4", "n5", "n6">>

\* a single field node with every combination of key, disabled and validate
LeafNodes ==
  {MkNode(k, "textfield", NodeLabels[1], d, v, <<>>) :
     k \in Keys, d \in OptBool, v \in Validate}

\* a containment chain: node i has key ks[i] and label NodeLabels[i], and
\* holds node i+1 as its only child; the last node is a field, the others
\* are groups
RECURSIVE Chain(_, _)
Chain(ks, i) ==
  IF i = Len(ks)
  THEN MkNode(ks[i], "textfield", NodeLabels[i], None, None, <<>>)
  ELSE MkNode(ks[i], "group", NodeLabels[i], None, None, <<Chain(ks, i + 1)>>)

ChainNodes ==
  {Chain(ks, 1) : ks \in UNION {[1..n -> Keys] : n \in 2..MaxDepth}}

\* sibling lists: two to MaxSiblings fields side by side, each disabled and
\* required in the schema, at the top level or inside one group
SiblingLists ==
  {[i \in 1..Len(ks) |->
      MkNode(ks[i], "textfield", NodeLabels[i + 1], Some(TRUE),
             Some([required |-> Some(TRUE)]), <<>>)] :
     ks \in UNION {[1..n -> Keys] : n \in 2..MaxSiblings}}

SiblingSchemas ==
  {MkSchema(l) : l \in SiblingLists} \cup
  {MkSchema(<<MkNode(k, "group", NodeLabels[1], None, None, l)>>) :
     k \in Keys, l \in SiblingLists}

Schemas ==
  {MkSchema(<<n>>) : n \in LeafNodes \cup ChainNodes} \cup SiblingSchemas

\* the schemas the application is run with: no node, one field, or one
\* group holding one field
AppSchemas ==
  {EmptySchema} \cup
  {MkSchema(<<Chain(ks, 1)>>) : ks \in UNION {[1..n -> Keys] : n \in 1..2}}

BehaviorBundle ==
  [state : {"entry"}, action : {"view"}, rows : RowLists]

\* the bundles the application passes: the bundle of a state, derived from
\* a matrix
DerivedBundles ==
  {ResolveBundle(bundlesFromMatrix(m, STATES), st) :
     m \in BehaviorMatrixValue, st \in StateIds}

\* either any schema with a bundle the application derives, or a schema of
\* one field with any bundle of at most MaxRows rows
EnrichInit ==
  /\ CodecOff /\ AppOff /\ ResolveOff /\ OpsOff /\ HeapOff /\ FieldsOff /\ LoadOff /\ BmOff /\ ViewerOff /\ DsOff
  /\ epc = "input"
  /\ eOut = EmptySchema
  /\ \/ /\ eSchema \in Schemas
        /\ eBundle \in DerivedBundles
     \/ /\ eSchema \in {MkSchema(<<n>>) : n \in LeafNodes}
        /\ eBundle \in BehaviorBundle

Enrich ==
  /\ epc = "input"
  /\ eOut' = enrichFormSchemaForState(eSchema, eBundle)
  /\ epc' = "enriched"
  /\ UNCHANGED <<eSchema, eBundle, codecVars, appVars, resolveVars, opsVars, heapVars, fieldsVars, loadVars, bmVars, viewerVars, dsVars>>

EnrichNext == Enrich

SpecEnrich == EnrichInit /\ [][EnrichNext]_vars

(* --------------------- application specification ----------------------- *)
CellCount(m) == Cardinality({<<fk, st>> \in FieldKeys \X StateIds :
                               CellAt(m, fk, st) # {}})
MatrixFiles == {m \in BehaviorMatrixValue : CellCount(m) <= MaxCells}

\* a state name that a loaded data file may carry and STATES does not list
UnknownState == "archived"
FormStates == Range(STATES) \cup {UnknownState}

\* matrix files that hold one cell, for the state STATES does not list
UnknownStateFiles ==
  {[fk \in {f} |-> [st \in {UnknownState} |-> c]] :
     f \in FieldKeys, c \in FieldCell}

\* the values React recomputes with useMemo on every render
bundles == bundlesFromMatrix(matrix, STATES)
enriched == enrichFormSchemaForState(schema, ResolveBundle(bundles, formState))
readOnly == ResolveReadOnly(bundles, matrix, formState)

\* App.tsx:53-58, the initial useState values
Init ==
  /\ CodecOff /\ EnrichOff /\ ResolveOff /\ OpsOff /\ HeapOff /\ FieldsOff /\ LoadOff /\ BmOff /\ ViewerOff /\ DsOff
  /\ apc = "on"
  /\ matrix = EmptyMatrix
  /\ formState = "entry"
  /\ schema = EmptySchema

\* App.tsx:109-118 loadSchema, and onSchemaChange of the editor
LoadSchema ==
  /\ apc = "on"
  /\ \E next \in AppSchemas : schema' = next
  /\ UNCHANGED <<apc, matrix, formState, codecVars, enrichVars, resolveVars, opsVars, heapVars, fieldsVars, loadVars, bmVars, viewerVars, dsVars>>

\* the matrices that loading a bundle file of at most MaxBundles bundles
\* and MaxLoadRows rows yields
LoadedFromArray ==
  UNION {UNION {{matrixFromBundles(FileBundles(k, st, rl, own)) :
                   st \in [1..k -> StateIds],
                   own \in {o \in [1..Len(rl) -> 1..k] : Monotone(o)}} :
                rl \in SeqUpTo(TaskFieldBehavior, MaxLoadRows)} :
         k \in 0..MaxBundles}

\* part_000:117-135 loadBehaviors, a file holding an array
LoadBehaviorsArray ==
  /\ apc = "on"
  /\ \E next \in LoadedFromArray : matrix' = next
  /\ UNCHANGED <<apc, schema, formState, codecVars, enrichVars, resolveVars, opsVars, heapVars, fieldsVars, loadVars, bmVars, viewerVars, dsVars>>

\* part_000:117-135 loadBehaviors, a file holding an object
LoadBehaviorsObject ==
  /\ apc = "on"
  /\ \E obj \in MatrixFiles \cup UnknownStateFiles : matrix' = obj
  /\ UNCHANGED <<apc, schema, formState, codecVars, enrichVars, resolveVars, opsVars, heapVars, fieldsVars, loadVars, bmVars, viewerVars, dsVars>>

\* the state selector (App.tsx:410) and loadData (App.tsx:132)
SetFormState ==
  /\ apc = "on"
  /\ \E next \in FormStates : formState' = next
  /\ UNCHANGED <<apc, matrix, schema, codecVars, enrichVars, resolveVars, opsVars, heapVars, fieldsVars, loadVars, bmVars, viewerVars, dsVars>>

Next == LoadSchema \/ LoadBehaviorsArray \/ LoadBehaviorsObject \/ SetFormState

Spec == Init /\ [][Next]_vars

(* ------------------- read-only flag specification ---------------------- *)
\* the flag depends on the state and action of the bundles only
ActionBundles == [state : Range(STATES), action : ActionContext, rows : {<<>>}]

ResolveInit ==
  /\ CodecOff /\ EnrichOff /\ AppOff /\ OpsOff /\ HeapOff /\ FieldsOff /\ LoadOff /\ BmOff /\ ViewerOff /\ DsOff
  /\ rpc = "input"
  /\ rBundles \in SeqUpTo(ActionBundles, MaxBundles)
  /\ rMatrix \in MatrixFiles \cup UnknownStateFiles
  /\ rState \in FormStates
  /\ rOut = FALSE

Resolve ==
  /\ rpc = "input"
  /\ rOut' = ResolveReadOnly(rBundles, rMatrix, rState)
  /\ rpc' = "resolved"
  /\ UNCHANGED <<rBundles, rMatrix, rState, codecVars, enrichVars, appVars, opsVars, heapVars, fieldsVars, loadVars, bmVars, viewerVars, dsVars>>

ResolveNext == Resolve

SpecResolve == ResolveInit /\ [][ResolveNext]_vars

(* ------------------- matrix helper specification ----------------------- *)
FieldLists == SeqUpTo(FieldKeys, MaxFieldList)

\* either a matrix with a field list and a state list for ensureAllCells,
\* or a target and a source of at most MaxCells cells for
\* overlayMatrixSourceWins
OpsInit ==
  /\ CodecOff /\ EnrichOff /\ AppOff /\ ResolveOff /\ HeapOff /\ FieldsOff /\ LoadOff /\ BmOff /\ ViewerOff /\ DsOff
  /\ oOut = EmptyMatrix
  /\ oPrev = EmptyMatrix
  /\ oMatrix \in BehaviorMatrixValue
  /\ \/ /\ opc = "ensure"
        /\ oFields \in FieldLists
        /\ oStates \in StateLists
        /\ oSource = EmptyMatrix
     \/ /\ opc = "overlay"
        /\ oFields = <<>>
        /\ oStates = <<>>
        /\ oSource \in MatrixFiles

\* part_001:33-46, a first call of ensureAllCells
EnsureAllCells ==
  /\ opc = "ensure"
  /\ oOut' = ensureAllCells(oMatrix, oFields, oStates)
  /\ opc' = "ensured"
  /\ UNCHANGED <<oMatrix, oSource, oFields, oStates, oPrev,
                 codecVars, enrichVars, appVars, resolveVars, heapVars, fieldsVars, loadVars, bmVars, viewerVars, dsVars>>

\* ensureAllCells called on its own result with the same lists
EnsureAgain ==
  /\ opc = "ensured"
  /\ oPrev' = oOut
  /\ oOut' = ensureAllCells(oOut, oFields, oStates)
  /\ opc' = "ensured2"
  /\ UNCHANGED <<oMatrix, oSource, oFields, oStates,
                 codecVars, enrichVars, appVars, resolveVars, heapVars, fieldsVars, loadVars, bmVars, viewerVars, dsVars>>

\* part_001:53-65
Overlay ==
  /\ opc = "overlay"
  /\ oOut' = overlayMatrixSourceWins(oMatrix, oSource)
  /\ opc' = "overlaid"
  /\ UNCHANGED <<oMatrix, oSource, oFields, oStates, oPrev,
                 codecVars, enrichVars, appVars, resolveVars, heapVars, fieldsVars, loadVars, bmVars, viewerVars, dsVars>>

OpsNext == EnsureAllCells \/ EnsureAgain \/ Overlay

SpecOps == OpsInit /\ [][OpsNext]_vars

(* -------------------- calls on objects specification ------------------- *)
\* the objects of the arguments, allocated before the call
StartCall(fn, m, src, fields, states, bl, sch, b) ==
  LET pm == ParseMatrix(EmptyHeap, m)
      ps == ParseMatrix(pm.h, src)
      pc == ParseSchema(ps.h, sch)
  IN /\ hFn = fn
     /\ heap = pc.h
     /\ hArg = [matrix |-> pm.ref, source |-> ps.ref, schema |-> pc.ref,
                fieldKeys |-> fields, states |-> states,
                bundles |-> bl, bundle |-> b]
     /\ hWas = [matrix |-> m, source |-> src, schema |-> sch,
                bundles |-> bl, bundle |-> b]

\* bundle lists of one bundle of at most MaxLoadRows rows
OneBundleLists ==
  {<<[state |-> st, action |-> "view", rows |-> rl]>> :
     st \in StateIds, rl \in SeqUpTo(TaskFieldBehavior, MaxLoadRows)}

ObjectsInit ==
  /\ CodecOff /\ EnrichOff /\ AppOff /\ ResolveOff /\ OpsOff /\ FieldsOff /\ LoadOff /\ BmOff /\ ViewerOff /\ DsOff
  /\ hpc = "args"
  /\ hOut = NoOut
  /\ hRet = NoRet
  /\ \/ \E m \in MatrixFiles, fl \in FieldLists, sl \in StateLists :
          StartCall("ensureAllCells", m, EmptyMatrix, fl, sl, <<>>,
                    EmptySchema, EmptyBundle)
     \/ \E m \in MatrixFiles, src \in MatrixFiles :
          StartCall("overlayMatrixSourceWins", m, src, <<>>, <<>>, <<>>,
                    EmptySchema, EmptyBundle)
     \/ \E m \in MatrixFiles, sl \in StateLists :
          StartCall("bundlesFromMatrix", m, EmptyMatrix, <<>>, sl, <<>>,
                    EmptySchema, EmptyBundle)
     \/ \E bl \in OneBundleLists :
          StartCall("matrixFromBundles", EmptyMatrix, EmptyMatrix, <<>>, <<>>,
                    bl, EmptySchema, EmptyBundle)
     \/ \E sch \in Schemas, b \in DerivedBundles :
          StartCall("enrichFormSchemaForState", EmptyMatrix, EmptyMatrix,
                    <<>>, <<>>, <<>>, sch, b)

\* a call that returns a matrix object
ReturnMatrix(r) ==
  /\ heap' = r.h
  /\ hOut' = [hOut EXCEPT !.matrix = r.ref]
  /\ hRet' = [hRet EXCEPT !.matrix = MatrixAt(r.h, r.ref)]
  /\ hpc' = "returned"
  /\ UNCHANGED <<hFn, hArg, hWas,
                 codecVars, enrichVars, appVars, resolveVars, opsVars, fieldsVars, loadVars, bmVars, viewerVars, dsVars>>

\* part_001:33-46
CallEnsureAllCells ==
  /\ hpc = "args" /\ hFn = "ensureAllCells"
  /\ ReturnMatrix(ensureAllCellsAt(heap, hArg.matrix, hArg.fieldKeys,
                                   hArg.states))

\* part_001:53-65
CallOverlay ==
  /\ hpc = "args" /\ hFn = "overlayMatrixSourceWins"
  /\ ReturnMatrix(overlayMatrixSourceWinsAt(heap, hArg.matrix, hArg.source))

\* behaviors.ts:60-87
CallMatrixFromBundles ==
  /\ hpc = "args" /\ hFn = "matrixFromBundles"
  /\ ReturnMatrix(matrixFromBundlesAt(heap, hArg.bundles))

\* behaviors.ts:16-54: the matrix is read, the bundles and their rows are
\* new objects that hold strings and booleans only
CallBundlesFromMatrix ==
  /\ hpc = "args" /\ hFn = "bundlesFromMatrix"
  /\ hOut' = [hOut EXCEPT !.bundles =
                bundlesFromMatrix(MatrixAt(heap, hArg.matrix), hArg.states)]
  /\ hpc' = "returned"
  /\ UNCHANGED <<hFn, heap, hArg, hWas, hRet,
                 codecVars, enrichVars, appVars, resolveVars, opsVars, fieldsVars, loadVars, bmVars, viewerVars, dsVars>>

\* enrich.ts:32-76
CallEnrich ==
  /\ hpc = "args" /\ hFn = "enrichFormSchemaForState"
  /\ LET r == enrichFormSchemaForStateAt(heap, hArg.schema, hArg.bundle)
     IN /\ heap' = r.h
        /\ hOut' = [hOut EXCEPT !.schema = r.ref]
        /\ hRet' = [hRet EXCEPT !.schema = SchemaAt(r.h, r.ref)]
  /\ hpc' = "returned"
  /\ UNCHANGED <<hFn, hArg, hWas,
                 codecVars, enrichVars, appVars, resolveVars, opsVars, fieldsVars, loadVars, bmVars, viewerVars, dsVars>>

\* a caller's later write to an object, after the call has returned
Changed(h, what) ==
  /\ heap' = h
  /\ hpc' = what
  /\ UNCHANGED <<hFn, hArg, hWas, hOut, hRet,
                 codecVars, enrichVars, appVars, resolveVars, opsVars, fieldsVars, loadVars, bmVars, viewerVars, dsVars>>

\* the caller flips required in a cell of the matrix overlay returned
ChangeResultCell ==
  /\ hpc = "returned" /\ hFn = "overlayMatrixSourceWins"
  /\ \E c \in CellsFrom(heap, hOut.matrix) :
       Changed([heap EXCEPT !.cell[c].required = ~@], "result changed")

\* the caller flips required in a cell of the source handed to overlay
ChangeSourceCell ==
  /\ hpc = "returned" /\ hFn = "overlayMatrixSourceWins"
  /\ \E c \in CellsFrom(heap, hArg.source) :
       Changed([heap EXCEPT !.cell[c].required = ~@], "source changed")

\* the caller writes disabled of a node of the schema the enricher returned
ChangeResultNode ==
  /\ hpc = "returned" /\ hFn = "enrichFormSchemaForState"
  /\ \E n \in NodesFrom(heap, hOut.schema) :
       Changed([heap EXCEPT !.node[n].disabled =
                  IF @ = Some(TRUE) THEN Some(FALSE) ELSE Some(TRUE)],
               "result changed")

\* the caller writes required of a validate object of the returned schema
ChangeResultValidate ==
  /\ hpc = "returned" /\ hFn = "enrichFormSchemaForState"
  /\ \E v \in ValidatesFrom(heap, hOut.schema) :
       Changed([heap EXCEPT !.val[v].required =
                  IF @ = Some(TRUE) THEN Some(FALSE) ELSE Some(TRUE)],
               "result changed")

\* the caller removes the last node of a components array of the returned
\* schema
ChangeResultArray ==
  /\ hpc = "returned" /\ hFn = "enrichFormSchemaForState"
  /\ \E a \in ArraysFrom(heap, hOut.schema) :
       /\ heap.arr[a] # <<>>
       /\ Changed([heap EXCEPT !.arr[a] = SubSeq(@, 1, Len(@) - 1)],
                  "result changed")

ObjectsNext ==
  \/ CallEnsureAllCells \/ CallOverlay \/ CallMatrixFromBundles
  \/ CallBundlesFromMatrix \/ CallEnrich
  \/ ChangeResultCell \/ ChangeSourceCell
  \/ ChangeResultNode \/ ChangeResultValidate \/ ChangeResultArray

SpecObjects == ObjectsInit /\ [][ObjectsNext]_vars

(* ------------------ field extraction specification --------------------- *)

\* the component types of the trees: a field, a container, and the two
\* display types extractFields skips
FieldTypes == {"textfield", "group", "text", "button"}

\* a node of any type with any key; its label names its place in the tree
FieldNode(i, kt, components) ==
  MkNode(kt[i][1], kt[i][2], NodeLabels[i], None, None, components)

\* trees of four nodes labelled in pre-order: a chain of three with a
\* sibling after it, and a node with two children with a sibling after it
ChainTree(kt) ==
  <<FieldNode(1, kt, <<FieldNode(2, kt, <<FieldNode(3, kt, <<>>)>>)>>),
    FieldNode(4, kt, <<>>)>>

ForkTree(kt) ==
  <<FieldNode(1, kt, <<FieldNode(2, kt, <<>>), FieldNode(3, kt, <<>>)>>),
    FieldNode(4, kt, <<>>)>>

FieldsInit ==
  /\ CodecOff /\ EnrichOff /\ AppOff /\ ResolveOff /\ OpsOff /\ HeapOff /\ LoadOff /\ BmOff /\ ViewerOff /\ DsOff
  /\ fpc = "input"
  /\ \E kt \in [1..4 -> Keys \X FieldTypes] :
       fComponents \in {ChainTree(kt), ForkTree(kt)}
  /\ fOut = <<>>

\* datasource.ts:64, a call of extractFields(components)
ExtractFields ==
  /\ fpc = "input"
  /\ fOut' = extractFields(fComponents)
  /\ fpc' = "done"
  /\ UNCHANGED <<fComponents, codecVars, enrichVars, appVars, resolveVars, opsVars, heapVars, loadVars, bmVars, viewerVars, dsVars>>

SpecFields == FieldsInit /\ [][ExtractFields]_vars

(* ------------------- behaviors file load specification ----------------- *)
\* a file holds a bundle list of at most MaxBundles bundles that share at
\* most MaxLoadRows rows, or a matrix, and is loaded into the initial
\* matrix of the application; or it holds a text that does not parse and
\* is loaded over a matrix of at most MaxCells cells
LoadInit ==
  /\ CodecOff /\ EnrichOff /\ AppOff /\ ResolveOff /\ OpsOff /\ HeapOff /\ FieldsOff /\ BmOff /\ ViewerOff /\ DsOff
  /\ lpc = "file"
  /\ \/ /\ lMatrix = EmptyMatrix
        /\ \E k \in 0..MaxBundles, rl \in SeqUpTo(TaskFieldBehavior, MaxLoadRows) :
             \E st \in [1..k -> StateIds], own \in [1..Len(rl) -> 1..k] :
               /\ Monotone(own)
               /\ lFile = ArrayFile(FileBundles(k, st, rl, own))
     \/ /\ lMatrix = EmptyMatrix
        /\ \E m \in BehaviorMatrixValue : lFile = ObjectFile(m)
     \/ /\ lFile = InvalidFile
        /\ \E m \in BehaviorMatrixValue :
             CellCount(m) <= MaxCells /\ lMatrix = m

\* part_000:117-135, reader.onload of loadBehaviors
LoadBehaviors ==
  /\ lpc = "file"
  /\ lMatrix' = loadBehaviors(lFile, lMatrix)
  /\ lpc' = "loaded"
  /\ UNCHANGED <<lFile, codecVars, enrichVars, appVars, resolveVars, opsVars, heapVars, fieldsVars, bmVars, viewerVars, dsVars>>

SpecLoad == LoadInit /\ [][LoadBehaviors]_vars

(* -------------------- BehaviorMatrix specification --------------------- *)
\* the states prop, the formId values ("" for a loadFromAPI without formId)
\* and the patches of setCell: the table calls it with a mode or with a
\* required flag (part_001:273, 284)
MatrixStates == <<"entry", "approve">>
FormIds == {"", "f1", "f2"}
Patches ==
  {[mode |-> Some(m), required |-> None] : m \in CellMode} \cup
  {[mode |-> None, required |-> Some(r)] : r \in BOOLEAN}

\* matrices of at most one cell, as the field_state_setting of the server
OneCellMatrices ==
  {EmptyMatrix} \cup
  {[fk \in {f} |-> [st \in {"entry"} |-> c]] : f \in FieldKeys, c \in FieldCell}

\* the value of the first render: no cell, or one cell of the first field
FirstValues == {m \in OneCellMatrices : DOMAIN m \subseteq {FieldOrder[1]}}

SchemaFieldLists == {<<"x">>, <<"x", "y">>}

\* part_001:118-124, the loader effect: without formId it returns, for the
\* formId already fetched it returns, else it notes the formId and starts
\* the GET
LoaderEffect(formId, fetched, g, usable) ==
  IF formId = "" \/ fetched = formId
  THEN /\ fetchedRef' = fetched
       /\ gState' = g
       /\ gUsable' = gUsable
       /\ gEdited' = gEdited
  ELSE /\ fetchedRef' = formId
       /\ gState' = "flight"
       /\ gUsable' = usable
       /\ gEdited' = FALSE

\* part_001:186, the cleanup of the loader effect: ac.abort()
Cleanup(g) == IF g = "flight" THEN "aborted" ELSE g

\* the state after the first commit: the effects have run once
BmInit ==
  /\ CodecOff /\ EnrichOff /\ AppOff /\ ResolveOff /\ OpsOff /\ HeapOff /\ FieldsOff /\ LoadOff /\ ViewerOff /\ DsOff
  /\ bValue \in FirstValues
  /\ latestValueRef = bValue
  /\ bFields \in SchemaFieldLists
  /\ bFormId \in FormIds
  /\ lastEmittedRef = None
  /\ fetchedRef = bFormId
  /\ gState = IF bFormId = "" THEN "none" ELSE "flight"
  /\ gUsable \in (IF bFormId = "" THEN {FALSE} ELSE BOOLEAN)
  /\ bOp = NoOp
  /\ bEdits = 0
  /\ gEdited = FALSE
  /\ bFormChanges = 0

\* part_001:86-94 setCell from a cell of the table; the parent stores the
\* matrix and renders again with it (part_001:97-98 updates the ref)
SetCellUpTo(n) ==
  /\ gState # "off"
  /\ bEdits < n
  /\ \E i \in DOMAIN bFields, j \in DOMAIN MatrixStates, patch \in Patches :
       /\ bValue' = setCell(bValue, bFields, MatrixStates,
                            bFields[i], MatrixStates[j], patch)
       /\ bOp' = [NoOp EXCEPT !.op = "setCell", !.fk = bFields[i],
                              !.st = MatrixStates[j], !.patch = patch]
  /\ latestValueRef' = bValue'
  /\ bEdits' = bEdits + 1
  /\ gEdited' = (gEdited \/ gState = "flight")
  /\ UNCHANGED <<bFields, bFormId, lastEmittedRef, fetchedRef, gState, gUsable, bFormChanges>>
  /\ UNCHANGED <<codecVars, enrichVars, appVars, resolveVars, opsVars, heapVars, fieldsVars, loadVars, viewerVars, dsVars>>

\* setCell on a component without loader, and on one with loadFromAPI
SetCell == SetCellUpTo(MaxEdits)
SetCellWithLoader == SetCellUpTo(MaxLoaderEdits)

\* a render with a new fields or states dependency (part_001:188-193):
\* the cleanup aborts the GET and the effect runs again
ChangeDeps ==
  /\ gState # "off"
  /\ \E fl \in SchemaFieldLists : bFields' = fl
  /\ LoaderEffect(bFormId, fetchedRef, Cleanup(gState), gUsable)
  /\ bOp' = [NoOp EXCEPT !.op = "deps"]
  /\ UNCHANGED <<bValue, bFormId, latestValueRef, lastEmittedRef, bEdits, bFormChanges>>
  /\ UNCHANGED <<codecVars, enrichVars, appVars, resolveVars, opsVars, heapVars, fieldsVars, loadVars, viewerVars, dsVars>>

\* a render with another formId: the cleanup aborts the GET, the guards are
\* reset (part_001:110-115) and the loader effect runs again
ChangeFormId ==
  /\ gState # "off"
  /\ bFormChanges < MaxFormChanges
  /\ bFormChanges' = bFormChanges + 1
  /\ \E f \in FormIds \ {bFormId}, usable \in BOOLEAN :
       /\ bFormId' = f
       /\ lastEmittedRef' = IF f # "" THEN None ELSE lastEmittedRef
       /\ LoaderEffect(f, IF f # "" THEN "" ELSE fetchedRef,
                       Cleanup(gState), usable)
  /\ bOp' = [NoOp EXCEPT !.op = "formId"]
  /\ UNCHANGED <<bValue, bFields, latestValueRef, bEdits>>
  /\ UNCHANGED <<codecVars, enrichVars, appVars, resolveVars, opsVars, heapVars, fieldsVars, loadVars, viewerVars, dsVars>>

\* part_001:132-179, the GET completes with a usable field_state_setting:
\* the matrix is emitted unless it equals the last one emitted
ServerAnswers ==
  /\ gState = "flight"
  /\ gUsable
  /\ \E server \in OneCellMatrices :
       /\ bOp' = [NoOp EXCEPT !.op = "answer", !.server = server]
       /\ IF lastEmittedRef = None
             \/ lastEmittedRef # Some(CompletedMatrix(latestValueRef, server,
                                                      bFields, MatrixStates))
          THEN /\ bValue' = CompletedMatrix(latestValueRef, server,
                                            bFields, MatrixStates)
               /\ latestValueRef' = bValue'
               /\ lastEmittedRef' = Some(bValue')
               /\ gState' = "emitted"
          ELSE /\ gState' = "skipped"
               /\ UNCHANGED <<bValue, latestValueRef, lastEmittedRef>>
  /\ UNCHANGED <<bFields, bFormId, fetchedRef, gUsable, bEdits, gEdited, bFormChanges>>
  /\ UNCHANGED <<codecVars, enrichVars, appVars, resolveVars, opsVars, heapVars, fieldsVars, loadVars, viewerVars, dsVars>>

\* part_001:135-139, 176-183: the response is not ok, holds no usable
\* field_state_setting, or the fetch fails
ServerFails ==
  /\ gState = "flight"
  /\ ~gUsable
  /\ gState' = "failed"
  /\ bOp' = [NoOp EXCEPT !.op = "failure"]
  /\ UNCHANGED <<bValue, bFields, bFormId, latestValueRef, lastEmittedRef, fetchedRef, gUsable, bEdits, gEdited, bFormChanges>>
  /\ UNCHANGED <<codecVars, enrichVars, appVars, resolveVars, opsVars, heapVars, fieldsVars, loadVars, viewerVars, dsVars>>

BmNext ==
  SetCellWithLoader \/ ChangeDeps \/ ChangeFormId \/ ServerAnswers \/ ServerFails

SpecMatrix == BmInit /\ [][BmNext]_vars

\* a component without loadFromAPI: cells are set and the schema changes
CellsInit == BmInit /\ bFormId = ""

CellsNext == SetCell \/ ChangeDeps

SpecCells == CellsInit /\ [][CellsNext]_vars

\* the server answers every GET that is not aborted
SpecMatrixLive ==
  SpecMatrix /\ WF_vars(ServerAnswers) /\ WF_vars(ServerFails)

(* ----------------------- ViewerPane specification ---------------------- *)
ViewerSchemas == {"s1", "s2"}
ViewerData == {"d1", "d2"}
UpdateKinds == {"mount", "schema", "data", "imperative"}

\* an update of the form that the component has started and that has not
\* settled: importSchema(schema, data), or setData(data)
Update(kind, s, d) == [kind |-> kind, schema |-> s, data |-> d]

\* a ?? b on a ref that holds "" for null
OrElse(a, b) == IF a # "" THEN a ELSE b

\* part_001:327-335; the values of the model are equal only if identical
shallowEqual(a, b) == a = b

\* part_001:386-409, the schema effect of a render: the update it starts
SchemaEffect(s, d) ==
  IF lastSchemaRef # s
  THEN <<Update("schema", s, OrElse(lastDataRef, d))>>
  ELSE <<>>

\* part_001:411-435, the data effect of a render: the update it starts
DataEffect(s, d) ==
  IF shallowEqual(d, lastDataRef)
  THEN <<>>
  ELSE <<Update("data", OrElse(lastSchemaRef, s), d)>>

\* the state after the first commit (part_001:351-435): the mount effect
\* has started its import, and the schema and data effects have run
ViewerInit ==
  /\ CodecOff /\ EnrichOff /\ AppOff /\ ResolveOff /\ OpsOff /\ HeapOff /\ FieldsOff /\ LoadOff /\ BmOff /\ DsOff
  /\ vSchema \in ViewerSchemas
  /\ vData \in ViewerData
  /\ lastSchemaRef = ""
  /\ lastDataRef = ""
  /\ suppressChangeRef = TRUE
  /\ vPending = <<Update("mount", vSchema, vData),
                  Update("schema", vSchema, vData),
                  Update("data", vSchema, vData)>>
  /\ vCall = NoCall

\* a render whose schema, data or readOnly prop has changed: the schema
\* effect runs, and the data effect unless only readOnly changed
Render(s, d, dataEffect) ==
  /\ vSchema' = s
  /\ vData' = d
  /\ vPending' = vPending \o SchemaEffect(s, d)
                          \o (IF dataEffect THEN DataEffect(s, d) ELSE <<>>)
  /\ Len(vPending') <= MaxPending
  /\ suppressChangeRef' = (suppressChangeRef \/ vPending' # vPending)
  /\ UNCHANGED <<lastSchemaRef, lastDataRef, vCall>>
  /\ UNCHANGED <<codecVars, enrichVars, appVars, resolveVars, opsVars, heapVars, fieldsVars, loadVars, bmVars, dsVars>>

ChangeSchema ==
  /\ vSchema # ""
  /\ \E s \in ViewerSchemas \ {vSchema} : Render(s, vData, TRUE)

ChangeData ==
  /\ vSchema # ""
  /\ \E d \in ViewerData \ {vData} : Render(vSchema, d, TRUE)

ChangeReadOnly ==
  /\ vSchema # ""
  /\ Render(vSchema, vData, FALSE)

\* part_001:441-449, importSchema of the handle
ImperativeImport ==
  /\ vSchema # ""
  /\ Len(vPending) < MaxPending
  /\ \E s \in ViewerSchemas, d \in ViewerData :
       vPending' = Append(vPending, Update("imperative", s, d))
  /\ suppressChangeRef' = TRUE
  /\ UNCHANGED <<vSchema, vData, lastSchemaRef, lastDataRef, vCall>>
  /\ UNCHANGED <<codecVars, enrichVars, appVars, resolveVars, opsVars, heapVars, fieldsVars, loadVars, bmVars, dsVars>>

Without(seq, i) == SubSeq(seq, 1, i - 1) \o SubSeq(seq, i + 1, Len(seq))

\* an update settles: its refs are written, and every update but the one
\* of the mount effect clears the flag
UpdateDone ==
  /\ \E i \in DOMAIN vPending :
       /\ vPending' = Without(vPending, i)
       /\ lastSchemaRef' = IF vPending[i].kind = "data" THEN lastSchemaRef
                           ELSE vPending[i].schema
       /\ lastDataRef' = IF vPending[i].kind = "schema" THEN lastDataRef
                         ELSE vPending[i].data
       /\ suppressChangeRef' = IF vPending[i].kind = "mount"
                               THEN suppressChangeRef ELSE FALSE
  /\ UNCHANGED <<vSchema, vData, vCall>>
  /\ UNCHANGED <<codecVars, enrichVars, appVars, resolveVars, opsVars, heapVars, fieldsVars, loadVars, bmVars, dsVars>>

\* an update throws: the effects clear the flag in finally, importSchema
\* of the handle leaves it set
UpdateFails ==
  /\ \E i \in DOMAIN vPending :
       /\ vPending' = Without(vPending, i)
       /\ suppressChangeRef' = IF vPending[i].kind \in {"schema", "data"}
                               THEN FALSE ELSE suppressChangeRef
  /\ UNCHANGED <<vSchema, vData, lastSchemaRef, lastDataRef, vCall>>
  /\ UNCHANGED <<codecVars, enrichVars, appVars, resolveVars, opsVars, heapVars, fieldsVars, loadVars, bmVars, dsVars>>

\* part_001:365-374 onFormChanged, for a 'changed' event of the form
FormChanged ==
  /\ vSchema # ""
  /\ \E evt \in ViewerData :
       IF suppressChangeRef \/ shallowEqual(evt, lastDataRef)
       THEN UNCHANGED <<lastDataRef, vCall>>
       ELSE /\ lastDataRef' = evt
            /\ vCall' = [called |-> TRUE, data |-> evt,
                         during |-> {vPending[i].kind : i \in DOMAIN vPending}]
  /\ UNCHANGED <<vSchema, vData, lastSchemaRef, suppressChangeRef, vPending>>
  /\ UNCHANGED <<codecVars, enrichVars, appVars, resolveVars, opsVars, heapVars, fieldsVars, loadVars, bmVars, dsVars>>

ViewerNext ==
  \/ ChangeSchema \/ ChangeData \/ ChangeReadOnly \/ ImperativeImport
  \/ UpdateDone \/ UpdateFails \/ FormChanged

SpecViewer == ViewerInit /\ [][ViewerNext]_vars

(* --------------------- data source specification ----------------------- *)
DataSourceOps ==
  {"getFormDefinition", "saveFormDefinition", "getBehaviors", "saveBehaviors",
   "getEntry", "saveEntry", "listStates"}

\* the answers to a request: 200, a miss, another HTTP error, or 0 for a
\* request that fails without an answer
Statuses == {200, 404, 405, 500, 0}

\* a call of the operation on the composite: prefer calls the primary
DsInit ==
  /\ CodecOff /\ EnrichOff /\ AppOff /\ ResolveOff /\ OpsOff /\ HeapOff /\ FieldsOff /\ LoadOff /\ BmOff /\ ViewerOff
  /\ dOp \in DataSourceOps
  /\ dpc = "route1"
  /\ dLog = <<>>
  /\ dPrimary = Pending
  /\ dFallback = Pending
  /\ dResult = Pending

\* part_006:22-27: prefer returns what the primary returned, and goes on to
\* the fallback when it threw
PrimarySettled(outcome) ==
  /\ dPrimary' = outcome
  /\ IF outcome.kind = "error"
     THEN dpc' = "fallback" /\ dResult' = dResult
     ELSE dpc' = "done" /\ dResult' = outcome
  /\ dFallback' = dFallback

\* the first route of the operation on FormsDataSource is answered
FirstRoute ==
  /\ dpc = "route1"
  /\ \E status \in Statuses :
       /\ dLog' = Append(dLog, [route |-> "route1", status |-> status])
       /\ IF status = 200
          THEN PrimarySettled(Value("route1"))
          ELSE IF dOp # "listStates" /\ isMiss(Thrown("route1", status))
               THEN /\ dpc' = "route2"
                    /\ UNCHANGED <<dPrimary, dFallback, dResult>>
               ELSE PrimarySettled(FirstRouteFailed(dOp, status))
  /\ UNCHANGED <<dOp, codecVars, enrichVars, appVars, resolveVars, opsVars, heapVars, fieldsVars, loadVars, bmVars, viewerVars>>

\* the second route of the operation on FormsDataSource is answered
SecondRoute ==
  /\ dpc = "route2"
  /\ \E status \in Statuses :
       /\ dLog' = Append(dLog, [route |-> "route2", status |-> status])
       /\ IF status = 200
          THEN PrimarySettled(Value("route2"))
          ELSE PrimarySettled(SecondRouteFailed(dOp, status))
  /\ UNCHANGED <<dOp, codecVars, enrichVars, appVars, resolveVars, opsVars, heapVars, fieldsVars, loadVars, bmVars, viewerVars>>

\* part_006:28-33: the call on the fallback is answered
Fallback ==
  /\ dpc = "fallback"
  /\ \E status \in Statuses :
       /\ dLog' = Append(dLog, [route |-> "crud", status |-> status])
       /\ dFallback' = IF status = 200 THEN Value("crud")
                       ELSE Thrown("crud", status)
       /\ dResult' = IF status = 200 THEN Value("crud")
                     ELSE preferError(dPrimary, Thrown("crud", status))
  /\ dpc' = "done"
  /\ UNCHANGED <<dOp, dPrimary, codecVars, enrichVars, appVars, resolveVars, opsVars, heapVars, fieldsVars, loadVars, bmVars, viewerVars>>

DsNext == FirstRoute \/ SecondRoute \/ Fallback

SpecSources == DsInit /\ [][DsNext]_vars

(* ============================ properties =============================== *)

\* the cells of a matrix, as a set of <<field, state, cell>>
Cells(m) ==
  UNION {{<<fk, st, m[fk][st]>> : st \in DOMAIN m[fk]} : fk \in DOMAIN m}

\* every row of a matrix holds at least one cell
NoEmptyRow(m) == \A fk \in DOMAIN m : DOMAIN m[fk] # {}

(* ------------------------------- C1 ------------------------------------ *)
\* C1, as stated: for a matrix in which no cell is readonly with
\* required = true, the round trip restores exactly the cells of the matrix
\* whose state is in the state list.
C1_RoundTripAsStated ==
  (cpc = "restored"
   /\ \A c \in Cells(cMatrix) : ~(c[3].mode = "readonly" /\ c[3].required))
  => Cells(cOut) = {c \in Cells(cMatrix) : c[2] \in Range(cStates)}

\* C1, amended: for a matrix in which only editable cells have
\* required = true, the round trip restores exactly the cells of the matrix
\* whose state is in the state list, with the same mode and required flag;
\* the fields of the result are the fields that have such a cell.
C1_RoundTrip ==
  (cpc = "restored"
   /\ \A c \in Cells(cMatrix) : c[3].required => c[3].mode = "editable")
  => /\ Cells(cOut) = {c \in Cells(cMatrix) : c[2] \in Range(cStates)}
     /\ NoEmptyRow(cOut)
     /\ DOMAIN cOut = {c[1] : c \in {d \in Cells(cMatrix) : d[2] \in Range(cStates)}}

C1_Witness ==
  /\ cpc = "restored"
  /\ \A c \in Cells(cMatrix) : c[3].required => c[3].mode = "editable"
  /\ \E c \in Cells(cMatrix) : c[3].mode = "hidden" /\ c[2] \in Range(cStates)
  /\ \E c \in Cells(cMatrix) : c[3].required /\ c[2] \in Range(cStates)
  /\ \E c \in Cells(cMatrix) : c[2] \notin Range(cStates)
  /\ Cells(cOut) # {}

(* ------------------------------- C8 ------------------------------------ *)
\* C8: in the bundle of each state s of the list there is exactly one row
\* for every field that has a cell for s and none for any other field, and
\* the row has visible = (mode is not hidden), action_context = update for
\* an editable cell and view otherwise, required = (required and editable).
C8_RowsOfBundle ==
  cpc \in {"bundles", "restored"} =>
    /\ Len(cBundles) = Len(cStates)
    /\ \A i \in 1..Len(cStates) :
         LET s == cStates[i]
             rows == cBundles[i].rows
         IN /\ \A fk \in FieldKeys :
                 Cardinality({j \in 1..Len(rows) : rows[j].field_name = fk})
                   = IF CellAt(cMatrix, fk, s) # {} THEN 1 ELSE 0
            /\ \A j \in 1..Len(rows) :
                 /\ rows[j].field_name \in FieldKeys
                 /\ \A c \in CellAt(cMatrix, rows[j].field_name, s) :
                      /\ rows[j].visible = Some(c.mode # "hidden")
                      /\ rows[j].action_context =
                           (IF c.mode = "editable" THEN "update" ELSE "view")
                      /\ rows[j].required = (c.required /\ c.mode = "editable")

C8_Witness ==
  /\ cpc = "bundles"
  /\ Len(cStates) = 2
  /\ \E fk \in FieldKeys :
       /\ CellAt(cMatrix, fk, cStates[1]) = {}
       /\ CellAt(cMatrix, fk, cStates[2]) # {}
  /\ \E fk \in FieldKeys :
       CellAt(cMatrix, fk, cStates[1]) = {[mode |-> "hidden", required |-> TRUE]}
  /\ Len(cBundles[1].rows) = 1
  /\ Len(cBundles[2].rows) = 2

(* ------------------------------- C9 ------------------------------------ *)
\* the position of a row in a bundle list
RowPositions(bl) ==
  {p \in (1..Len(bl)) \X (1..MaxRows + 1) : p[2] <= Len(bl[p[1]].rows)}
\* the rows that name the pair (fk, st)
Mentions(bl, fk, st) ==
  {p \in RowPositions(bl) :
     bl[p[1]].state = st /\ bl[p[1]].rows[p[2]].field_name = fk}
\* of the rows that name a pair, the one that comes last in the list
LastMention(bl, fk, st) ==
  CHOOSE p \in Mentions(bl, fk, st) :
    \A q \in Mentions(bl, fk, st) :
      q[1] < p[1] \/ (q[1] = p[1] /\ q[2] <= p[2])

\* C9: the matrix holds a cell for exactly the (field, state) pairs that
\* some row names, and the cell of a pair is the one its row gives: hidden
\* if visible is false, else editable for update or create, else readonly,
\* with required kept for an editable cell and false otherwise (when
\* several rows name one pair, its row is the last of them).
C9_CellsOfRows ==
  cpc = "loaded" =>
    \A fk \in FieldKeys, st \in StateIds :
      IF Mentions(cBundles, fk, st) = {}
      THEN CellAt(cOut, fk, st) = {}
      ELSE LET p == LastMention(cBundles, fk, st)
               row == cBundles[p[1]].rows[p[2]]
               mode == IF row.visible = Some(FALSE) THEN "hidden"
                       ELSE IF row.action_context = "view" THEN "readonly"
                       ELSE "editable"
           IN CellAt(cOut, fk, st) =
                {[mode |-> mode,
                  required |-> (mode = "editable" /\ row.required)]}

C9_Witness ==
  /\ cpc = "loaded"
  /\ Len(cBundles) = 2
  /\ Len(cBundles[1].rows) = 1 /\ Len(cBundles[2].rows) = 1
  /\ cBundles[1].state # cBundles[2].state
  /\ cBundles[1].rows[1].action_context = "create"
  /\ cBundles[1].rows[1].visible = None
  /\ cBundles[1].rows[1].required
  /\ cBundles[2].rows[1].visible = Some(FALSE)
  /\ Cardinality(Cells(cOut)) = 2

(* ------------------------------- C10 ----------------------------------- *)
\* C10: a cell that is readonly with required = true, for a state of the
\* state list, comes back from the round trip readonly with required = false.
C10_ReadonlyRequiredLost ==
  cpc = "restored" =>
    \A fk \in FieldKeys, st \in Range(cStates) :
      CellAt(cMatrix, fk, st) = {[mode |-> "readonly", required |-> TRUE]}
        => CellAt(cOut, fk, st) = {[mode |-> "readonly", required |-> FALSE]}

C10_Witness ==
  /\ cpc = "restored"
  /\ \E fk \in FieldKeys, st \in Range(cStates) :
       /\ CellAt(cMatrix, fk, st) = {[mode |-> "readonly", required |-> TRUE]}
       /\ CellAt(cOut, fk, st) = {[mode |-> "readonly", required |-> FALSE]}
(* --------------------------- schema trees ------------------------------ *)
\* the nodes of the subtree of n, n included
RECURSIVE SubtreeNodes(_)
SubtreeNodes(n) ==
  {n} \cup UNION {SubtreeNodes(n.components[i]) : i \in DOMAIN n.components}
\* the nodes of a components list at any depth
AllNodes(components) ==
  UNION {SubtreeNodes(components[i]) : i \in DOMAIN components}
LabelsOf(components) == {n.label : n \in AllNodes(components)}
NodeLabelled(components, l) == CHOOSE n \in AllNodes(components) : n.label = l

\* the rows of a bundle that name the key, and the last of them: the row
\* of the key
RowsNamed(rows, key) == {j \in 1..Len(rows) : rows[j].field_name = key}
HasRow(rows, key) == RowsNamed(rows, key) # {}
RowOf(rows, key) ==
  rows[CHOOSE j \in RowsNamed(rows, key) : \A i \in RowsNamed(rows, key) : i <= j]

(* ------------------------------- C2 ------------------------------------ *)
\* C2: for every field name whose row in the bundle has visible = false,
\* the enriched schema holds no node of that key at any depth, and no
\* descendant of a node of that key either.
C2_HiddenDropped ==
  epc = "enriched" =>
    \A k \in FieldKeys :
      (HasRow(eBundle.rows, k) /\ RowOf(eBundle.rows, k).visible = Some(FALSE))
      => /\ \A o \in AllNodes(eOut.components) : o.key # k
         /\ \A n \in AllNodes(eSchema.components) :
              n.key = k =>
                \A d \in SubtreeNodes(n) : d.label \notin LabelsOf(eOut.components)

C2_Witness ==
  /\ epc = "enriched"
  /\ \E n \in AllNodes(eSchema.components) :
       /\ n.label = NodeLabels[4]
       /\ n.key # NoKey
       /\ HasRow(eBundle.rows, n.key)
       /\ RowOf(eBundle.rows, n.key).visible = Some(FALSE)
  /\ NodeLabels[3] \in LabelsOf(eOut.components)
  /\ NodeLabels[4] \notin LabelsOf(eOut.components)

(* ------------------------------- C3 ------------------------------------ *)
\* the kept nodes whose key has a row with visible = true and action view
ViewNodes ==
  {n \in AllNodes(eSchema.components) :
     /\ n.key # NoKey
     /\ HasRow(eBundle.rows, n.key)
     /\ RowOf(eBundle.rows, n.key).visible = Some(TRUE)
     /\ RowOf(eBundle.rows, n.key).action_context = "view"
     /\ n.label \in LabelsOf(eOut.components)}

\* C3, as stated: the output node of such a node has disabled = true and
\* validate.required = false, whether or not the input node has a validate
\* object.
C3_ViewAsStated ==
  epc = "enriched" =>
    \A n \in ViewNodes :
      LET o == NodeLabelled(eOut.components, n.label)
      IN /\ o.disabled = Some(TRUE)
         /\ o.validate = Some([required |-> Some(FALSE)])

\* C3, amended: the output node has disabled = true whatever the row's
\* required flag is; it has validate.required = false when the input node
\* has a validate object, and no validate object when the input node has none.
C3_View ==
  epc = "enriched" =>
    \A n \in ViewNodes :
      LET o == NodeLabelled(eOut.components, n.label)
      IN /\ o.disabled = Some(TRUE)
         /\ n.validate # None => o.validate = Some([required |-> Some(FALSE)])
         /\ n.validate = None => o.validate = None

C3_Witness ==
  /\ epc = "enriched"
  /\ \E n \in ViewNodes :
       /\ RowOf(eBundle.rows, n.key).required
       /\ n.validate = Some([required |-> Some(TRUE)])
       /\ n.disabled = Some(FALSE)
       /\ NodeLabelled(eOut.components, n.label).validate
            = Some([required |-> Some(FALSE)])

(* ------------------------------- C4 ------------------------------------ *)
\* the kept nodes whose key has a row with visible not false and action
\* update or create
EditNodes ==
  {n \in AllNodes(eSchema.components) :
     /\ n.key # NoKey
     /\ HasRow(eBundle.rows, n.key)
     /\ RowOf(eBundle.rows, n.key).visible # Some(FALSE)
     /\ RowOf(eBundle.rows, n.key).action_context \in {"update", "create"}
     /\ n.label \in LabelsOf(eOut.components)}

\* C4: the output node of such a node has disabled = false and a validate
\* object whose required is the row's required flag.
C4_Edit ==
  epc = "enriched" =>
    \A n \in EditNodes :
      LET o == NodeLabelled(eOut.components, n.label)
      IN /\ o.disabled = Some(FALSE)
         /\ o.validate # None
         /\ o.validate = Some([required |-> Some(RowOf(eBundle.rows, n.key).required)])

C4_Witness ==
  /\ epc = "enriched"
  /\ \E n \in EditNodes :
       /\ RowOf(eBundle.rows, n.key).action_context = "create"
       /\ RowOf(eBundle.rows, n.key).visible = None
       /\ RowOf(eBundle.rows, n.key).required
       /\ n.validate = None
       /\ n.disabled = Some(TRUE)
       /\ NodeLabelled(eOut.components, n.label).validate
            = Some([required |-> Some(TRUE)])
(* ------------------------------- C20 ----------------------------------- *)
\* the key has a row in the bundle that hides it
HiddenKey(k) ==
  /\ k # NoKey
  /\ HasRow(eBundle.rows, k)
  /\ RowOf(eBundle.rows, k).visible = Some(FALSE)

\* the node lies inside a node that is dropped as hidden
UnderHidden(n) ==
  \E a \in AllNodes(eSchema.components) :
    a # n /\ n \in SubtreeNodes(a) /\ HiddenKey(a.key)

\* the nodes without a key and the keyed nodes whose key has no row
PassNodes ==
  {n \in AllNodes(eSchema.components) :
     n.key = NoKey \/ ~HasRow(eBundle.rows, n.key)}

LabelSeq(components) == [i \in DOMAIN components |-> components[i].label]
KeptLabels(components) ==
  LabelSeq(SelectSeq(components, LAMBDA c : ~HiddenKey(c.key)))

\* the output node of n has the properties of n, and its components are the
\* kept components of n in their order
PassedThrough(n) ==
  /\ n.label \in LabelsOf(eOut.components)
  /\ LET o == NodeLabelled(eOut.components, n.label)
     IN /\ o.key = n.key /\ o.type = n.type
        /\ o.disabled = n.disabled /\ o.validate = n.validate
        /\ LabelSeq(o.components) = KeptLabels(n.components)

\* C20, as stated: every node without a key and every keyed node whose key
\* has no row is kept in the output, at its position among the kept
\* siblings, with disabled, validate, label and type unchanged.
C20_PassThroughAsStated ==
  epc = "enriched" =>
    /\ LabelSeq(eOut.components) = KeptLabels(eSchema.components)
    /\ \A n \in PassNodes : PassedThrough(n)

\* C20, amended: such a node is kept with its properties unchanged unless
\* it lies inside a node that is dropped as hidden; the kept nodes of every
\* components list keep their order.
C20_PassThrough ==
  epc = "enriched" =>
    /\ LabelSeq(eOut.components) = KeptLabels(eSchema.components)
    /\ \A n \in AllNodes(eSchema.components) :
         (~HiddenKey(n.key) /\ ~UnderHidden(n)) =>
           /\ n.label \in LabelsOf(eOut.components)
           /\ LabelSeq(NodeLabelled(eOut.components, n.label).components)
                = KeptLabels(n.components)
           /\ n \in PassNodes => PassedThrough(n)

C20_Witness ==
  /\ epc = "enriched"
  /\ \E g \in PassNodes :
       /\ g.key = NoKey
       /\ Len(g.components) = 3
       /\ HiddenKey(g.components[1].key)
       /\ g.components[2].key = NoKey
       /\ g.components[3].key \notin {NoKey, g.components[1].key}
       /\ ~HasRow(eBundle.rows, g.components[3].key)
       /\ LET o == NodeLabelled(eOut.components, g.label)
          IN /\ Len(o.components) = 2
             /\ o.components[1] = g.components[2]
             /\ o.components[2] = g.components[3]
             /\ o.components[2].disabled = Some(TRUE)

(* ------------------------------- C5 ------------------------------------ *)
\* C5: in the application, with an empty matrix and the active state
\* entry, the readOnly flag is false.
C5_EntryAcceptsData ==
  (apc = "on" /\ matrix = EmptyMatrix /\ formState = "entry") => ~readOnly

(* ------------------------------- C6 ------------------------------------ *)
\* C6: the flag is true exactly when the first bundle of the state has
\* action view, or no cell of the matrix for the state is editable and the
\* state is not entry; with no bundle and no cell it is false for entry and
\* true for approve.
C6_ReadOnlyFlag ==
  rpc = "resolved" =>
    /\ rOut <=>
         \/ \E i \in 1..Len(rBundles) :
              /\ rBundles[i].state = rState
              /\ \A j \in 1..(i - 1) : rBundles[j].state # rState
              /\ rBundles[i].action = "view"
         \/ /\ \A c \in Cells(rMatrix) : ~(c[2] = rState /\ c[3].mode = "editable")
            /\ rState # "entry"
    /\ (rBundles = <<>> /\ rMatrix = EmptyMatrix /\ rState = "entry") => ~rOut
    /\ (rBundles = <<>> /\ rMatrix = EmptyMatrix /\ rState = "approve") => rOut

C6_Witness ==
  /\ rpc = "resolved"
  /\ rBundles = <<>>
  /\ rMatrix = EmptyMatrix
  /\ rState = "entry"
  /\ ~rOut

(* ------------------------------- C7 ------------------------------------ *)
fieldKeys == [i \in DOMAIN extractFields(schema.components) |->
                extractFields(schema.components)[i].key]
\* the enriched schema of the active state after the matrix is completed
\* for all schema fields and states
enrichedCompleted ==
  enrichFormSchemaForState(
    schema,
    ResolveBundle(bundlesFromMatrix(ensureAllCells(matrix, fieldKeys, STATES),
                                    STATES),
                  formState))

\* the schema fields that have no cell for the active state
FieldsWithoutCell ==
  {n \in AllNodes(schema.components) :
     /\ n.key \in Range(fieldKeys)
     /\ n.type \notin {"text", "button"}
     /\ CellAt(matrix, n.key, formState) = {}}

\* the node lies in a node that the bundle of the active state hides
InHiddenNode(n) ==
  \E a \in AllNodes(schema.components) :
    /\ a # n
    /\ n \in SubtreeNodes(a)
    /\ a.key # NoKey
    /\ HasRow(ResolveBundle(bundles, formState).rows, a.key)
    /\ RowOf(ResolveBundle(bundles, formState).rows, a.key).visible = Some(FALSE)

\* C7, as stated: the enriched schema is the one obtained when the matrix
\* is first completed with ensureAllCells for all schema fields and states.
C7_MissingIsHiddenAsStated ==
  apc = "on" => enriched = enrichedCompleted

\* C7, amended: a schema field without a cell for the active state gets no
\* row, and its node is passed through: it is kept unless it lies in a
\* node the bundle hides, with its key, type, disabled and validate
\* unchanged; it is not treated as a hidden cell, for after completion
\* with ensureAllCells the node is dropped in every state of the state list.
C7_MissingIsPassedThrough ==
  apc = "on" =>
    \A n \in FieldsWithoutCell :
      /\ ~HasRow(ResolveBundle(bundles, formState).rows, n.key)
      /\ n.label \in LabelsOf(enriched.components) <=> ~InHiddenNode(n)
      /\ n.label \in LabelsOf(enriched.components) =>
           LET o == NodeLabelled(enriched.components, n.label)
           IN /\ o.key = n.key /\ o.type = n.type
              /\ o.disabled = n.disabled /\ o.validate = n.validate
      /\ formState \in Range(STATES) =>
           n.label \notin LabelsOf(enrichedCompleted.components)

C7_Witness ==
  /\ apc = "on"
  /\ formState = "approve"
  /\ \E n \in FieldsWithoutCell :
       /\ n.key \in DOMAIN matrix
       /\ n.label = NodeLabels[2]
       /\ n.label \in LabelsOf(enriched.components)
       /\ n.label \notin LabelsOf(enrichedCompleted.components)

(* C11: bundlesFromMatrix(M, S) returns one bundle per element of S, in the
   order of S, each carrying its state name; the bundle of a state in which
   M has no cell has zero rows. *)
C11_BundlePerState ==
  cpc = "bundles" =>
    /\ Len(cBundles) = Len(cStates)
    /\ \A i \in 1..Len(cStates) :
         /\ cBundles[i].state = cStates[i]
         /\ (\A c \in Cells(cMatrix) : c[2] # cStates[i])
              => cBundles[i].rows = <<>>

C11_Witness ==
  /\ cpc = "bundles"
  /\ Len(cStates) = 2
  /\ cStates[1] # cStates[2]
  /\ Cells(cMatrix) # {}
  /\ \A c \in Cells(cMatrix) : c[2] # cStates[1]
  /\ cBundles[1].rows = <<>>
  /\ cBundles[2].rows # <<>>

(* C12: the action of every bundle bundlesFromMatrix returns is "update" if
   a cell of the matrix for the state of the bundle is editable and "view"
   otherwise; it is never "create". *)
C12_BundleAction ==
  cpc = "bundles" =>
    \A i \in 1..Len(cBundles) :
      /\ cBundles[i].action # "create"
      /\ cBundles[i].action =
           IF \E c \in Cells(cMatrix) :
                c[2] = cBundles[i].state /\ c[3].mode = "editable"
           THEN "update" ELSE "view"

C12_Witness ==
  /\ cpc = "bundles"
  /\ Len(cBundles) = 2
  /\ cBundles[1].action = "update"
  /\ cBundles[2].action = "view"
  /\ \E c \in Cells(cMatrix) : c[2] = cBundles[2].state /\ c[3].mode = "readonly"

(* C13: ensureAllCells(M, F, S) has a cell for every pair of a field of F
   and a state of S, and every such cell that M lacks is the default cell
   {mode: hidden, required: false}. *)
C13_AllCellsPresent ==
  opc = "ensured" =>
    \A f \in Range(oFields), s \in Range(oStates) :
      /\ CellAt(oOut, f, s) # {}
      /\ CellAt(oMatrix, f, s) = {}
           => CellAt(oOut, f, s) = {[mode |-> "hidden", required |-> FALSE]}

C13_Witness ==
  /\ opc = "ensured"
  /\ \E f \in Range(oFields), s \in Range(oStates) :
       /\ f \notin DOMAIN oMatrix
       /\ CellAt(oOut, f, s) = {[mode |-> "hidden", required |-> FALSE]}
  /\ \E f \in Range(oFields), s \in Range(oStates) :
       /\ f \in DOMAIN oMatrix
       /\ CellAt(oMatrix, f, s) = {}
       /\ CellAt(oOut, f, s) # {}

(* C14: ensureAllCells(M, F, S) keeps every cell of M with its mode and its
   required flag, the cells of fields outside F and of states outside S
   included. *)
C14_CellsKept ==
  opc = "ensured" => Cells(oMatrix) \subseteq Cells(oOut)

C14_Witness ==
  /\ opc = "ensured"
  /\ oOut # oMatrix
  /\ \E c \in Cells(oMatrix) : c[1] \notin Range(oFields) /\ c \in Cells(oOut)
  /\ \E c \in Cells(oMatrix) :
       /\ c[1] \in Range(oFields) /\ c[2] \notin Range(oStates)
       /\ c[3] # DEFAULT_CELL /\ c \in Cells(oOut)

(* C15: ensureAllCells is idempotent: called on its own result with the same
   field list and state list it returns that result. *)
C15_Idempotent ==
  opc = "ensured2" => oOut = oPrev

C15_Witness ==
  /\ opc = "ensured2"
  /\ oPrev # oMatrix
  /\ oOut = oPrev
  /\ Len(oStates) = 2 /\ oStates[1] # oStates[2]

(* C16: overlayMatrixSourceWins(target, source) holds the cell of source
   wherever source has one, the cell of target wherever only target has one,
   and no other cell. *)
C16_Overlay ==
  opc = "overlaid" =>
    Cells(oOut) =
      Cells(oSource) \cup
      {c \in Cells(oMatrix) : CellAt(oSource, c[1], c[2]) = {}}

C16_Witness ==
  /\ opc = "overlaid"
  /\ \E c \in Cells(oSource) :
       /\ CellAt(oMatrix, c[1], c[2]) \notin {{}, {c[3]}}
       /\ c \in Cells(oOut)
  /\ \E c \in Cells(oMatrix) :
       CellAt(oSource, c[1], c[2]) = {} /\ c \in Cells(oOut)

\* the functions on objects return the values the functions on values give
ObjectsAgreeWithValues ==
  hpc = "returned" =>
    /\ hFn = "ensureAllCells" =>
         hRet.matrix = ensureAllCells(hWas.matrix, hArg.fieldKeys, hArg.states)
    /\ hFn = "overlayMatrixSourceWins" =>
         hRet.matrix = overlayMatrixSourceWins(hWas.matrix, hWas.source)
    /\ hFn = "matrixFromBundles" =>
         hRet.matrix = matrixFromBundles(hArg.bundles)
    /\ hFn = "enrichFormSchemaForState" =>
         hRet.schema = enrichFormSchemaForState(hWas.schema, hArg.bundle)

(* C17: the matrix overlayMatrixSourceWins returns shares no cell object
   with target or source: a later in-place change of a cell of the result
   changes neither argument, and a later in-place change of a cell of
   source does not change the result. *)
C17_OverlayDeepCopy ==
  hFn = "overlayMatrixSourceWins" =>
    /\ hpc = "returned" =>
         CellsFrom(heap, hOut.matrix) \cap
           (CellsFrom(heap, hArg.matrix) \cup CellsFrom(heap, hArg.source)) = {}
    /\ hpc = "result changed" =>
         /\ MatrixAt(heap, hArg.matrix) = hWas.matrix
         /\ MatrixAt(heap, hArg.source) = hWas.source
    /\ hpc = "source changed" =>
         MatrixAt(heap, hOut.matrix) = hRet.matrix

(* C18: the schema enrichFormSchemaForState returns shares no node, no
   components array and no validate object with the input schema, and a
   later in-place change of the result leaves the input schema as it was. *)
C18_EnrichDeepCopy ==
  hFn = "enrichFormSchemaForState" =>
    /\ hpc \in {"returned", "result changed"} =>
         /\ NodesFrom(heap, hOut.schema) \cap NodesFrom(heap, hArg.schema) = {}
         /\ ArraysFrom(heap, hOut.schema) \cap ArraysFrom(heap, hArg.schema) = {}
         /\ ValidatesFrom(heap, hOut.schema)
              \cap ValidatesFrom(heap, hArg.schema) = {}
    /\ hpc = "result changed" => SchemaAt(heap, hArg.schema) = hWas.schema

C18_Witness ==
  /\ hFn = "enrichFormSchemaForState"
  /\ hpc = "result changed"
  /\ SchemaAt(heap, hOut.schema) # hRet.schema
  /\ hRet.schema # hWas.schema
  /\ ArraysFrom(heap, hArg.schema) # {}
  /\ ValidatesFrom(heap, hOut.schema) # {}
  /\ ValidatesFrom(heap, hArg.schema) # {}

(* C19: ensureAllCells, overlayMatrixSourceWins, bundlesFromMatrix,
   matrixFromBundles and enrichFormSchemaForState modify none of their
   arguments: after the call the matrix, the source, the bundle list, the
   bundle and the schema are equal to what they were before it. *)
C19_ArgumentsUnchanged ==
  hpc = "returned" =>
    /\ MatrixAt(heap, hArg.matrix) = hWas.matrix
    /\ MatrixAt(heap, hArg.source) = hWas.source
    /\ SchemaAt(heap, hArg.schema) = hWas.schema
    /\ hArg.bundles = hWas.bundles
    /\ hArg.bundle = hWas.bundle

C19_Witness ==
  /\ hpc = "returned"
  /\ hFn = "ensureAllCells"
  /\ Cells(hWas.matrix) # {}
  /\ Cells(hRet.matrix) # Cells(hWas.matrix)
  /\ DOMAIN hRet.matrix # DOMAIN hWas.matrix
  /\ MatrixAt(heap, hArg.matrix) = hWas.matrix

(* ------------------------------- C21 ----------------------------------- *)

(* C21: for an active state that has no bundle in the bundle list the
   resolved bundle is {state, action: view, rows: []}, the enriched schema
   is the schema with every node unchanged, and the readOnly flag is true. *)
C21_UnknownStateReadOnly ==
  (apc = "on" /\ FindBundle(bundles, formState, 1) = None) =>
    /\ ResolveBundle(bundles, formState)
         = [state |-> formState, action |-> "view", rows |-> <<>>]
    /\ enriched = schema
    /\ readOnly

(* ------------------------------- C22 ----------------------------------- *)

\* the nodes that give a field: a key, and a type other than text, button
GivesField(n) == n.key # NoKey /\ n.type \notin {"text", "button"}

\* the place of a node in the pre-order of its tree (the trees are labelled
\* in pre-order)
PreOrderIndex(label) == CHOOSE i \in DOMAIN NodeLabels : NodeLabels[i] = label

(* C22: extractFields(components) returns exactly one field for each node
   with a key whose type is neither text nor button, in the pre-order of
   the tree, with duplicate keys kept; a text or button node gives no
   field, and its children are still visited. *)
C22_ExtractFields ==
  fpc = "done" =>
    /\ Len(fOut)
         = Cardinality({n \in AllNodes(fComponents) : GivesField(n)})
    /\ \A n \in AllNodes(fComponents) :
         GivesField(n) <=>
           \E i \in DOMAIN fOut :
             fOut[i] = [key |-> n.key, label |-> n.label, type |-> n.type]
    /\ \A i, j \in DOMAIN fOut :
         i < j => PreOrderIndex(fOut[i].label) < PreOrderIndex(fOut[j].label)

\* a keyed text node gives no field while its keyed child does, and two
\* fields of the result share a key
C22_Witness ==
  /\ fpc = "done"
  /\ \E a \in AllNodes(fComponents) :
       /\ a.type \in {"text", "button"} /\ a.key # NoKey
       /\ \A i \in DOMAIN fOut : fOut[i].label # a.label
       /\ \E n \in SubtreeNodes(a) :
            /\ n # a
            /\ \E i \in DOMAIN fOut : fOut[i].label = n.label
  /\ \E i, j \in DOMAIN fOut : i < j /\ fOut[i].key = fOut[j].key

(* ------------------------------- C23 ----------------------------------- *)

\* a bundle list with no row at all
NoRows(bl) == \A i \in DOMAIN bl : bl[i].rows = <<>>

(* C23: loading a behaviors file, a parsed array is converted with
   matrixFromBundles and any other value is taken as the matrix itself; the
   empty array, the empty object and a bundle list whose only bundle has no
   rows each leave an empty matrix, and no field key is invented: a key of
   the loaded matrix is a key of the object, or is named by a row. *)
C23_LoadBehaviors ==
  lpc = "loaded" =>
    /\ lFile.kind = "array" => lMatrix = matrixFromBundles(lFile.array)
    /\ lFile.kind = "object" => lMatrix = lFile.object
    /\ (lFile.kind = "array" /\ Len(lFile.array) <= 1 /\ NoRows(lFile.array))
         => lMatrix = EmptyMatrix
    /\ lFile = ObjectFile(EmptyMatrix) => lMatrix = EmptyMatrix
    /\ lFile.kind = "array" =>
         \A fk \in DOMAIN lMatrix :
           \E i \in DOMAIN lFile.array :
             \E j \in DOMAIN lFile.array[i].rows :
               lFile.array[i].rows[j].field_name = fk

\* a bundle list of one bundle without rows was loaded and the matrix is
\* empty
C23_Witness ==
  /\ lpc = "loaded"
  /\ lFile.kind = "array" /\ Len(lFile.array) = 1 /\ NoRows(lFile.array)
  /\ lMatrix = EmptyMatrix

(* ------------------------------- C24 ----------------------------------- *)

(* C24: with loadFromAPI set, when the server answers the GET for a formId
   with a usable field_state_setting, the component eventually calls
   onChange with the loaded matrix (or the formId is changed first), also
   when a render with a changed fields or states dependency comes while
   the GET is in flight. *)
C24_LoadDelivered ==
  \A f \in FormIds \ {""} :
    (bFormId = f /\ gState = "flight" /\ gUsable)
      ~> (bFormId # f \/ gState = "emitted")

(* ------------------------------- C25 ----------------------------------- *)

(* C25: the matrix handed to onChange when the GET completes is built from
   the value current at completion: a cell the server defines takes the
   server's value, a cell only the current value defines is kept (edits
   made while the GET was in flight included), every field of the schema
   has a cell for every state, and onChange is called only with a matrix
   that differs from the last one the loader emitted. *)
C25_LoaderOverlay ==
  [][(gState = "flight" /\ gState' = "emitted") =>
       /\ \A fk \in DOMAIN bOp'.server :
            \A st \in DOMAIN bOp'.server[fk] :
              CellAt(bValue', fk, st) = Some(bOp'.server[fk][st])
       /\ \A fk \in DOMAIN bValue :
            \A st \in DOMAIN bValue[fk] :
              CellAt(bOp'.server, fk, st) = None
                => CellAt(bValue', fk, st) = Some(bValue[fk][st])
       /\ \A fk \in Range(bFields) :
            \A st \in Range(MatrixStates) : CellAt(bValue', fk, st) # None
       /\ lastEmittedRef # Some(bValue')]_vars

\* the GET has completed after an edit made while it was in flight, and the emitted matrix holds a cell of the server next to an
\* edited cell that the server does not define
C25_Witness ==
  /\ gState = "emitted" /\ bOp.op = "answer"
  /\ gEdited
  /\ bOp.server # EmptyMatrix
  /\ \E fk \in DOMAIN bValue :
       \E st \in DOMAIN bValue[fk] :
         /\ CellAt(bOp.server, fk, st) = None
         /\ bValue[fk][st] # DEFAULT_CELL

(* ------------------------------- C30 ----------------------------------- *)

(* C30: setCell(field, state, patch) emits a matrix that differs from the
   completed current matrix only in the cell (field, state), whose mode and
   required take the values of the patch where given and keep the current
   ones otherwise; every field of the schema has a cell for every state in
   the emitted matrix. *)
C30_SetCell ==
  [][bOp'.op = "setCell" /\ bEdits' = bEdits + 1 =>
       /\ DOMAIN bValue' = DOMAIN ensureAllCells(bValue, bFields, MatrixStates)
       /\ \A fk \in DOMAIN bValue' :
            /\ DOMAIN bValue'[fk]
                 = DOMAIN ensureAllCells(bValue, bFields, MatrixStates)[fk]
            /\ \A st \in DOMAIN bValue'[fk] :
                 <<fk, st>> # <<bOp'.fk, bOp'.st>> =>
                   bValue'[fk][st]
                     = ensureAllCells(bValue, bFields, MatrixStates)[fk][st]
       /\ bValue'[bOp'.fk][bOp'.st].mode
            \in (IF bOp'.patch.mode # None THEN bOp'.patch.mode
                 ELSE {ensureAllCells(bValue, bFields,
                                      MatrixStates)[bOp'.fk][bOp'.st].mode})
       /\ bValue'[bOp'.fk][bOp'.st].required
            \in (IF bOp'.patch.required # None THEN bOp'.patch.required
                 ELSE {ensureAllCells(bValue, bFields,
                                      MatrixStates)[bOp'.fk][bOp'.st].required})
       /\ \A fk \in Range(bFields) :
            \A st \in Range(MatrixStates) : CellAt(bValue', fk, st) # None]_vars

\* a second setCell has changed the mode of a required cell, and the cell
\* is still required
C30_Witness ==
  /\ bOp.op = "setCell" /\ bEdits = 2
  /\ bOp.patch.mode # None /\ bOp.patch.required = None
  /\ bValue[bOp.fk][bOp.st].required
  /\ bValue[bOp.fk][bOp.st].mode \in bOp.patch.mode

(* ------------------------------- C26 ----------------------------------- *)

(* C26: ViewerPane never calls onDataChange for a 'changed' event that the
   form emits while an update started by the schema effect, the data effect
   or importSchema of the handle is in progress, also when two such
   updates overlap. *)
C26_NoCallDuringUpdate ==
  vCall.called => vCall.during \cap {"schema", "data", "imperative"} = {}

(* ------------------------------- C27 ----------------------------------- *)

\* the requests made so far to the given route
Requests(route) == {i \in DOMAIN dLog : dLog[i].route = route}

(* C27: every operation of the composite runs on the primary first; the
   fallback is called only after the call on the primary has failed, never
   when it succeeded; when both fail the caller gets the error of the
   primary. *)
C27_PrimaryFirst ==
  /\ dLog # <<>> => dLog[1].route = "route1"
  /\ Requests("crud") # {} => dPrimary.kind = "error"
  /\ dPrimary.kind \in {"value", "null"} =>
       /\ Requests("crud") = {}
       /\ dResult = dPrimary
  /\ (dpc = "done" /\ dPrimary.kind = "error" /\ dFallback.kind = "error") =>
       dResult = dPrimary

\* both the primary and the fallback have failed, with different errors
C27_Witness ==
  /\ dpc = "done"
  /\ dPrimary.kind = "error" /\ dFallback.kind = "error"
  /\ dPrimary.status # dFallback.status
  /\ dResult.from # "crud"

(* ------------------------------- C28 ----------------------------------- *)

(* C28: for getFormDefinition and getEntry, when the endpoints of the
   primary answer 404, the composite calls the CRUD data source and returns
   its result. *)
C28_FallbackOn404 ==
  (/\ dpc = "done"
   /\ dOp \in {"getFormDefinition", "getEntry"}
   /\ \A i \in DOMAIN dLog :
        dLog[i].route \in {"route1", "route2"} => dLog[i].status = 404)
    => /\ Requests("crud") # {}
       /\ dFallback.kind = "value" => dResult = dFallback

(* ------------------------------- C29 ----------------------------------- *)

(* C29: in the six operations of FormsDataSource the second route is
   requested only when the first route failed with status 404 or 405; any
   other failure of the first route is thrown to the caller of
   FormsDataSource and the second route is not requested. *)
C29_SecondRouteOnMiss ==
  dOp # "listStates" =>
    /\ Requests("route2") # {} => dLog[1].status \in {404, 405}
    /\ (dLog # <<>> /\ dLog[1].status \in {500, 0}) =>
         /\ Requests("route2") = {}
         /\ dPrimary = Thrown("route1", dLog[1].status)

\* the first route of saveBehaviors has failed without an answer: the error
\* is thrown to the caller and the second route is not requested
C29_Witness ==
  /\ dOp = "saveBehaviors"
  /\ dLog # <<>> /\ dLog[1].status = 0
  /\ dPrimary = Thrown("route1", 0)
  /\ Requests("route2") = {}

====
